---- MODULE Spec2Model ----
(***************************************************************************)
(* Grade computation and planning engine of the CGPA calculator, together  *)
(* with the dashboard handlers that build the session the engine reads.    *)
(*                                                                         *)
(* Numbers.  The engine computes with JavaScript numbers and uses null /   *)
(* undefined for "no value".  A value of type number | null | undefined is *)
(* modelled as a record [null, n, d]: either NULL, or the exact rational   *)
(* n/d in lowest terms with d > 0, so that equality of records is equality *)
(* of values.  Arithmetic is exact rational arithmetic.                    *)
(***************************************************************************)
EXTENDS Integers, Sequences, FiniteSets, TLC

VARIABLES semesters, scale, isLoaded, localStorage, mount

vars == <<semesters, scale, isLoaded, localStorage, mount>>

-----------------------------------------------------------------------------
(* Exact rational arithmetic for the engine's numbers.                     *)

Abs(x) == IF x < 0 THEN -x ELSE x

RECURSIVE GCD(_, _)
GCD(a, b) == IF b = 0 THEN a ELSE GCD(b, a % b)

\* null / undefined
NULL == [null |-> TRUE, n |-> 0, d |-> 1]

\* the number n/d (d # 0), in lowest terms
Rat(n, d) ==
  LET s == IF d < 0 THEN -1 ELSE 1
      g == GCD(Abs(n), Abs(d))
  IN  [null |-> FALSE, n |-> (s * n) \div g, d |-> (s * d) \div g]

Num(i) == [null |-> FALSE, n |-> i, d |-> 1]

Zero == Num(0)

IsNull(x) == x.null

RAdd(x, y) == Rat(x.n * y.d + y.n * x.d, x.d * y.d)
RSub(x, y) == Rat(x.n * y.d - y.n * x.d, x.d * y.d)
RMul(x, y) == Rat(x.n * y.n, x.d * y.d)
\* x / y for y # 0 (every division of the engine is guarded by its caller)
RDiv(x, y) == Rat(x.n * y.d, x.d * y.n)
RLe(x, y) == x.n * y.d <= y.n * x.d
RLt(x, y) == x.n * y.d < y.n * x.d
RGe(x, y) == RLe(y, x)
RGt(x, y) == RLt(y, x)

\* value || 0 : null, undefined and 0 all give 0
OrZero(x) == IF IsNull(x) \/ x = Zero THEN Zero ELSE x

\* Math.round(value * 10^2) / 10^2, Math.round rounding halves up
roundForDisplay(value) ==
  IF IsNull(value) THEN NULL
  ELSE Rat((2 * 100 * value.n + value.d) \div (2 * value.d), 100)

-----------------------------------------------------------------------------
(* Grade templates (calculator.ts).  A mapping is                          *)
(* {minMarks, maxMarks, letterGrade, gradePoint}.                          *)

BIT_MESRA_10_POINT ==
  [ scale |-> 10,
    mappings |-> <<
      [minMarks |-> 91, maxMarks |-> 100, letterGrade |-> "A+/O", gradePoint |-> Num(10)],
      [minMarks |-> 81, maxMarks |-> 90,  letterGrade |-> "A",    gradePoint |-> Num(9)],
      [minMarks |-> 71, maxMarks |-> 80,  letterGrade |-> "B",    gradePoint |-> Num(8)],
      [minMarks |-> 61, maxMarks |-> 70,  letterGrade |-> "C",    gradePoint |-> Num(7)],
      [minMarks |-> 51, maxMarks |-> 60,  letterGrade |-> "D",    gradePoint |-> Num(6)],
      [minMarks |-> 41, maxMarks |-> 50,  letterGrade |-> "E",    gradePoint |-> Num(5)],
      [minMarks |-> 0,  maxMarks |-> 40,  letterGrade |-> "F",    gradePoint |-> Num(0)] >> ]

STANDARD_4_POINT ==
  [ scale |-> 4,
    mappings |-> <<
      [minMarks |-> 93, maxMarks |-> 100, letterGrade |-> "A+", gradePoint |-> Num(4)],
      [minMarks |-> 90, maxMarks |-> 92,  letterGrade |-> "A",  gradePoint |-> Num(4)],
      [minMarks |-> 87, maxMarks |-> 89,  letterGrade |-> "A-", gradePoint |-> Rat(37, 10)],
      [minMarks |-> 83, maxMarks |-> 86,  letterGrade |-> "B+", gradePoint |-> Rat(33, 10)],
      [minMarks |-> 80, maxMarks |-> 82,  letterGrade |-> "B",  gradePoint |-> Num(3)],
      [minMarks |-> 77, maxMarks |-> 79,  letterGrade |-> "B-", gradePoint |-> Rat(27, 10)],
      [minMarks |-> 73, maxMarks |-> 76,  letterGrade |-> "C+", gradePoint |-> Rat(23, 10)],
      [minMarks |-> 70, maxMarks |-> 72,  letterGrade |-> "C",  gradePoint |-> Num(2)],
      [minMarks |-> 67, maxMarks |-> 69,  letterGrade |-> "C-", gradePoint |-> Rat(17, 10)],
      [minMarks |-> 63, maxMarks |-> 66,  letterGrade |-> "D+", gradePoint |-> Rat(13, 10)],
      [minMarks |-> 60, maxMarks |-> 62,  letterGrade |-> "D",  gradePoint |-> Num(1)],
      [minMarks |-> 0,  maxMarks |-> 59,  letterGrade |-> "F",  gradePoint |-> Num(0)] >> ]

\* the "no template" value of `scale === 10 ? BIT_MESRA_10_POINT : undefined`
NoTemplate == [scale |-> 0, mappings |-> << >>]

\* grade.toUpperCase(), on the letters the model feeds (every other string of the
\* model has no lower-case letter)
toUpperCase(grade) ==
  CASE grade = "a"    -> "A"
    [] grade = " a "  -> " A "
    [] grade = "a+/o" -> "A+/O"
    [] grade = "b+"   -> "B+"
    [] grade = "z"    -> "Z"
    [] OTHER          -> grade

\* grade.trim(), on the letters the model feeds (every other string of the model
\* has no white space around it)
trim(grade) ==
  CASE grade = " A " -> "A"
    [] grade = " a " -> "a"
    [] OTHER         -> grade

\* LETTER_TO_POINTS_10[letter]; NULL is undefined
LETTER_TO_POINTS_10(letter) ==
  CASE letter = "A+/O" -> Num(10)
    [] letter = "A+"   -> Num(10)
    [] letter = "O"    -> Num(10)
    [] letter = "A"    -> Num(9)
    [] letter = "B"    -> Num(8)
    [] letter = "C"    -> Num(7)
    [] letter = "D"    -> Num(6)
    [] letter = "E"    -> Num(5)
    [] letter = "F"    -> Num(0)
    [] OTHER           -> NULL

\* LETTER_TO_POINTS_4[letter]; NULL is undefined
LETTER_TO_POINTS_4(letter) ==
  CASE letter = "A+" -> Num(4)
    [] letter = "A"  -> Num(4)
    [] letter = "A-" -> Rat(37, 10)
    [] letter = "B+" -> Rat(33, 10)
    [] letter = "B"  -> Num(3)
    [] letter = "B-" -> Rat(27, 10)
    [] letter = "C+" -> Rat(23, 10)
    [] letter = "C"  -> Num(2)
    [] letter = "C-" -> Rat(17, 10)
    [] letter = "D+" -> Rat(13, 10)
    [] letter = "D"  -> Num(1)
    [] letter = "D-" -> Rat(7, 10)
    [] letter = "F"  -> Num(0)
    [] OTHER         -> NULL

\* the for-loop of convertMarksToGrade from mapping i on: the first mapping with
\* minMarks <= marks <= maxMarks, else the last mapping
RECURSIVE MarksToGradeLoop(_, _, _)
MarksToGradeLoop(marks, mappings, i) ==
  IF i > Len(mappings) THEN mappings[Len(mappings)].letterGrade
  ELSE IF RGe(marks, Num(mappings[i].minMarks)) /\ RLe(marks, Num(mappings[i].maxMarks))
    THEN mappings[i].letterGrade
  ELSE MarksToGradeLoop(marks, mappings, i + 1)

\* a slip: the upper end of a mapping's range taken as exclusive
RECURSIVE MarksToGradeLoopExclusive(_, _, _)
MarksToGradeLoopExclusive(marks, mappings, i) ==
  IF i > Len(mappings) THEN mappings[Len(mappings)].letterGrade
  ELSE IF RGe(marks, Num(mappings[i].minMarks)) /\ RLt(marks, Num(mappings[i].maxMarks))
    THEN mappings[i].letterGrade
  ELSE MarksToGradeLoopExclusive(marks, mappings, i + 1)

convertMarksToGrade_ExclusiveMax(marks, template) ==
  MarksToGradeLoopExclusive(marks, template.mappings, 1)

convertMarksToGrade(marks, template) == MarksToGradeLoop(marks, template.mappings, 1)

\* template.mappings.find(m => m.letterGrade.toUpperCase() === upperGrade), as the
\* position of the mapping found, 0 when there is none
RECURSIVE FindMapping(_, _, _)
FindMapping(mappings, upperGrade, i) ==
  IF i > Len(mappings) THEN 0
  ELSE IF toUpperCase(mappings[i].letterGrade) = upperGrade THEN i
  ELSE FindMapping(mappings, upperGrade, i + 1)

\* a slip: the built-in table taken although the template has the letter
convertGradeToPoints_TableOnly(grade, scl, template) ==
  LET upperGrade == trim(toUpperCase(grade))
  IN  IF scl = 10 THEN OrZero(LETTER_TO_POINTS_10(upperGrade))
      ELSE OrZero(LETTER_TO_POINTS_4(upperGrade))

\* template = NoTemplate stands for the omitted argument
convertGradeToPoints(grade, scl, template) ==
  LET upperGrade == trim(toUpperCase(grade))
      found      == FindMapping(template.mappings, upperGrade, 1)
  IN  IF Len(template.mappings) > 0 /\ found # 0
        THEN template.mappings[found].gradePoint
      ELSE IF scl = 10
        THEN LET p == LETTER_TO_POINTS_10(upperGrade) IN IF IsNull(p) THEN Zero ELSE p
      ELSE LET p == LETTER_TO_POINTS_4(upperGrade) IN IF IsNull(p) THEN Zero ELSE p

convertMarksToPoints(marks, template) ==
  LET letter == convertMarksToGrade(marks, template)
      points == convertGradeToPoints(letter, template.scale, template)
  IN  [letter |-> letter, points |-> points]

-----------------------------------------------------------------------------
(* GPA / CGPA engine (calculator.ts).                                      *)
(* A course is [credits, gradePoint, marks, grade]; a semester is          *)
(* [id, order, courses, manualGPA, manualCredits].                         *)

\* a slip: an ungraded course's credits are counted, with (gradePoint || 0) points
RECURSIVE GPAAccumulateCountingUngraded(_, _, _, _)
GPAAccumulateCountingUngraded(courses, i, totalPoints, totalCredits) ==
  IF i > Len(courses) THEN [totalPoints |-> totalPoints, totalCredits |-> totalCredits]
  ELSE GPAAccumulateCountingUngraded(courses, i + 1,
         RAdd(totalPoints, RMul(OrZero(courses[i].gradePoint), courses[i].credits)),
         RAdd(totalCredits, courses[i].credits))

\* the for-loop of calculateGPA: {totalPoints, totalCredits} after courses[i..]
RECURSIVE GPAAccumulate(_, _, _, _)
GPAAccumulate(courses, i, totalPoints, totalCredits) ==
  IF i > Len(courses) THEN [totalPoints |-> totalPoints, totalCredits |-> totalCredits]
  ELSE LET course == courses[i] IN
       IF IsNull(course.gradePoint)
         THEN GPAAccumulate(courses, i + 1, totalPoints, totalCredits)
       ELSE IF course.credits = Zero
         THEN GPAAccumulate(courses, i + 1, totalPoints, totalCredits)
       ELSE GPAAccumulate(courses, i + 1,
                          RAdd(totalPoints, RMul(course.gradePoint, course.credits)),
                          RAdd(totalCredits, course.credits))

\* a slip: "no course qualifies" reported as 0
calculateGPA_ZeroForNone(courses) ==
  LET acc == GPAAccumulate(courses, 1, Zero, Zero)
  IN  IF acc.totalCredits = Zero THEN Zero
      ELSE RDiv(acc.totalPoints, acc.totalCredits)

calculateGPA(courses) ==
  LET acc == GPAAccumulate(courses, 1, Zero, Zero)
  IN  IF acc.totalCredits = Zero THEN NULL
      ELSE RDiv(acc.totalPoints, acc.totalCredits)

\* the outer for-loop of calculateCGPA
RECURSIVE CGPAAccumulate(_, _, _, _)
CGPAAccumulate(sems, i, totalPoints, totalCredits) ==
  IF i > Len(sems) THEN [totalPoints |-> totalPoints, totalCredits |-> totalCredits]
  ELSE LET semester == sems[i] IN
       IF Len(semester.courses) > 0
         THEN LET acc == GPAAccumulate(semester.courses, 1, totalPoints, totalCredits)
              IN  CGPAAccumulate(sems, i + 1, acc.totalPoints, acc.totalCredits)
       ELSE IF /\ ~IsNull(semester.manualGPA)
               /\ ~IsNull(semester.manualCredits)
               /\ RGt(semester.manualCredits, Zero)
         THEN CGPAAccumulate(sems, i + 1,
                             RAdd(totalPoints, RMul(semester.manualGPA, semester.manualCredits)),
                             RAdd(totalCredits, semester.manualCredits))
       ELSE CGPAAccumulate(sems, i + 1, totalPoints, totalCredits)

\* a slip: manual-entry semesters are left out of the CGPA
RECURSIVE CGPAAccumulateCoursesOnly(_, _, _, _)
CGPAAccumulateCoursesOnly(sems, i, totalPoints, totalCredits) ==
  IF i > Len(sems) THEN [totalPoints |-> totalPoints, totalCredits |-> totalCredits]
  ELSE LET acc == GPAAccumulate(sems[i].courses, 1, totalPoints, totalCredits)
       IN  CGPAAccumulateCoursesOnly(sems, i + 1, acc.totalPoints, acc.totalCredits)

calculateCGPA_CoursesOnly(sems) ==
  LET acc == CGPAAccumulateCoursesOnly(sems, 1, Zero, Zero)
  IN  IF acc.totalCredits = Zero THEN NULL
      ELSE RDiv(acc.totalPoints, acc.totalCredits)

\* a slip: the CGPA taken as the plain mean of the semesters' GPAs
RECURSIVE MeanAccumulate(_, _, _, _)
MeanAccumulate(sems, i, total, count) ==
  IF i > Len(sems) THEN [total |-> total, count |-> count]
  ELSE LET gpa == IF Len(sems[i].courses) > 0 THEN calculateGPA(sems[i].courses)
                  ELSE sems[i].manualGPA
       IN  IF IsNull(gpa) THEN MeanAccumulate(sems, i + 1, total, count)
           ELSE MeanAccumulate(sems, i + 1, RAdd(total, gpa), count + 1)

calculateCGPA_MeanOfSemesters(sems) ==
  LET acc == MeanAccumulate(sems, 1, Zero, 0)
  IN  IF acc.count = 0 THEN NULL ELSE RDiv(acc.total, Num(acc.count))

\* a slip: the CGPA updated semester by semester as the mean of the CGPA so far
\* and the semester's GPA
RECURSIVE RunningMean(_, _, _)
RunningMean(sems, i, cgpa) ==
  IF i > Len(sems) THEN cgpa
  ELSE LET gpa == IF Len(sems[i].courses) > 0 THEN calculateGPA(sems[i].courses)
                  ELSE sems[i].manualGPA
       IN  IF IsNull(gpa) THEN RunningMean(sems, i + 1, cgpa)
           ELSE IF IsNull(cgpa) THEN RunningMean(sems, i + 1, gpa)
           ELSE RunningMean(sems, i + 1, RDiv(RAdd(cgpa, gpa), Num(2)))

calculateCGPA_RunningMean(sems) == RunningMean(sems, 1, NULL)

calculateCGPA(sems) ==
  LET acc == CGPAAccumulate(sems, 1, Zero, Zero)
  IN  IF acc.totalCredits = Zero THEN NULL
      ELSE RDiv(acc.totalPoints, acc.totalCredits)

\* a slip: a manual GPA, when set, takes priority over the courses
getSemesterGPA_ManualFirst(semester) ==
  IF ~IsNull(semester.manualGPA)
    THEN [gpa |-> semester.manualGPA, isManual |-> TRUE]
  ELSE IF Len(semester.courses) > 0
    THEN [gpa |-> calculateGPA(semester.courses), isManual |-> FALSE]
  ELSE [gpa |-> NULL, isManual |-> FALSE]

getSemesterGPA(semester) ==
  IF Len(semester.courses) > 0
    THEN [gpa |-> calculateGPA(semester.courses), isManual |-> FALSE]
  ELSE IF ~IsNull(semester.manualGPA)
    THEN [gpa |-> semester.manualGPA, isManual |-> TRUE]
  ELSE [gpa |-> NULL, isManual |-> FALSE]

\* courses.reduce((sum, c) => sum + (c.credits || 0), 0) over courses[i..]
RECURSIVE SumCredits(_, _, _)
SumCredits(courses, i, sum) ==
  IF i > Len(courses) THEN sum
  ELSE SumCredits(courses, i + 1, RAdd(sum, OrZero(courses[i].credits)))

getSemesterCredits(semester) ==
  IF Len(semester.courses) > 0
    THEN SumCredits(semester.courses, 1, Zero)
  ELSE IF ~IsNull(semester.manualCredits)
    THEN semester.manualCredits
  ELSE Zero


-----------------------------------------------------------------------------
(* The session held by the dashboard (DashboardPage) and its handlers.     *)
(* session.semesters is `semesters`, session.metadata.scale is `scale`.    *)
(* Semester names and course names/codes are labels that no computation    *)
(* reads; they are left out.  A semester id is `sem-${Date.now()}`: ids    *)
(* are only ever compared for equality, so a fresh id is modelled as the   *)
(* least number no semester of the session carries.                        *)

\* most semesters a session holds
MaxSemesters == 2
\* most courses a session holds, over all its semesters
MaxCourses == 2

Course(credits, gradePoint, marks, grade) ==
  [credits |-> credits, gradePoint |-> gradePoint, marks |-> marks, grade |-> grade]

\* the courses the course form submits; "" is an absent grade
CourseValues ==
  { Course(Num(4), Num(9),  NULL,    "A"),
    Course(Num(3), Num(0),  Num(30), "F"),
    Course(Num(0), Num(10), NULL,    "A+/O"),
    Course(Num(3), NULL,    Num(85), "") }

Semester(id, order, courses, manualGPA, manualCredits) ==
  [id |-> id, order |-> order, courses |-> courses,
   manualGPA |-> manualGPA, manualCredits |-> manualCredits]

\* sessions read from an imported file: manual-entry semesters and either scale
ImportedSessions ==
  { [scale |-> 4,  semesters |-> << >>],
    [scale |-> 4,  semesters |-> << Semester(0, 0, << >>, Rat(7, 2), Num(18)) >>],
    [scale |-> 10, semesters |-> << Semester(0, 0, << >>, Num(7), Num(18)) >>],
    [scale |-> 10, semesters |-> << Semester(0, 0, << >>, Num(0), Num(18)) >>],
    [scale |-> 10, semesters |-> << Semester(0, 0, << >>, Num(7), NULL) >>],
    [scale |-> 10, semesters |-> << Semester(0, 0, << >>, NULL, Num(18)) >>] }

SemesterIds == {semesters[i].id : i \in 1..Len(semesters)}

FreshId == CHOOSE i \in 0..Len(semesters) :
             /\ i \notin SemesterIds
             /\ \A j \in 0..(i - 1) : j \in SemesterIds

RECURSIVE CountCourses(_, _)
CountCourses(sems, i) ==
  IF i > Len(sems) THEN 0 ELSE Len(sems[i].courses) + CountCourses(sems, i + 1)

\* arr.filter(keep), keep given as the set of kept elements' positions
RECURSIVE FilterIdx(_, _, _)
FilterIdx(arr, keep, i) ==
  IF i > Len(arr) THEN << >>
  ELSE IF i \in keep THEN <<arr[i]>> \o FilterIdx(arr, keep, i + 1)
  ELSE FilterIdx(arr, keep, i + 1)

\* the session object of the dashboard's state
SessionOf(sems, scl) == [semesters |-> sems, metadata |-> [scale |-> scl]]

\* what loadSession returns when no session is stored
NoSession == [semesters |-> << >>, metadata |-> [scale |-> 0]]

\* the two effects of DashboardPage
LoadEffect == "load"
SaveEffect == "save"

\* mount, after a call of saveSession(session): the first session saved is kept
Saved(m, session) ==
  [m EXCEPT !.firstSaved = IF @ = NoSession THEN session ELSE @]

\* the dashboard once mounted on a stored session (NoSession: nothing stored):
\* no effect left to run, no state update scheduled, the session saved
Mounted(stored, session) ==
  [toRun |-> {}, pending |-> << >>, atMount |-> stored, firstSaved |-> session]

\* what follows setSession in a handler: the render with the new session and the
\* save effect, whose dependency session has changed
sessionChanged ==
  /\ mount.toRun = {}
  /\ mount.pending = << >>
  /\ isLoaded' = isLoaded
  /\ IF isLoaded
       THEN /\ localStorage' = SessionOf(semesters', scale')
            /\ mount' = Saved(mount, SessionOf(semesters', scale'))
       ELSE UNCHANGED <<localStorage, mount>>

Init ==
  /\ semesters = << >>
  /\ scale = 10
  /\ isLoaded = TRUE
  /\ localStorage = SessionOf(semesters, scale)
  /\ mount = Mounted(NoSession, SessionOf(<< >>, 10))

addSemester ==
  /\ Len(semesters) < MaxSemesters
  /\ semesters' = Append(semesters,
                         Semester(FreshId, Len(semesters), << >>, NULL, NULL))
  /\ UNCHANGED scale
  /\ sessionChanged

deleteSemester(semesterId) ==
  /\ semesters' = FilterIdx(semesters,
                            {i \in 1..Len(semesters) : semesters[i].id # semesterId}, 1)
  /\ UNCHANGED scale
  /\ sessionChanged

\* semesters.map(s => s.id === semesterId ? {...s, courses: [...s.courses, course]} : s)
withCourseAdded(sems, semesterId, course) ==
  [i \in 1..Len(sems) |->
     IF sems[i].id = semesterId
       THEN [sems[i] EXCEPT !.courses = Append(@, course)]
       ELSE sems[i]]

addCourse(semesterId, course) ==
  /\ CountCourses(semesters, 1) < MaxCourses
  /\ semesters' = withCourseAdded(semesters, semesterId, course)
  /\ UNCHANGED scale
  /\ sessionChanged

deleteCourse(semesterId, courseIndex) ==
  /\ semesters' = [i \in 1..Len(semesters) |->
                     IF semesters[i].id = semesterId
                       THEN [semesters[i] EXCEPT !.courses =
                               FilterIdx(@, (1..Len(@)) \ {courseIndex}, 1)]
                       ELSE semesters[i]]
  /\ UNCHANGED scale
  /\ sessionChanged

updateCourse(semesterId, courseIndex, updatedCourse) ==
  /\ semesters' = [i \in 1..Len(semesters) |->
                     IF semesters[i].id = semesterId
                       THEN [semesters[i] EXCEPT !.courses =
                               [k \in 1..Len(@) |->
                                  IF k = courseIndex THEN updatedCourse ELSE @[k]]]
                       ELSE semesters[i]]
  /\ UNCHANGED scale
  /\ sessionChanged

handleImportJSON(imported) ==
  /\ semesters' = imported.semesters
  /\ scale' = imported.scale
  /\ sessionChanged

handleClearAll ==
  /\ semesters' = << >>
  /\ scale' = 10
  /\ sessionChanged

Next ==
  \/ addSemester
  \/ \E i \in 1..Len(semesters) : deleteSemester(semesters[i].id)
  \/ \E i \in 1..Len(semesters), course \in CourseValues :
       addCourse(semesters[i].id, course)
  \/ \E i \in 1..Len(semesters) : \E k \in 1..Len(semesters[i].courses) :
       deleteCourse(semesters[i].id, k)
  \/ \E i \in 1..Len(semesters) : \E k \in 1..Len(semesters[i].courses) :
       \E updatedCourse \in CourseValues :
         updateCourse(semesters[i].id, k, updatedCourse)
  \/ \E imported \in ImportedSessions : handleImportJSON(imported)
  \/ handleClearAll

Spec == Init /\ [][Next]_vars

-----------------------------------------------------------------------------
(* The course form (CourseForm) of the dashboard, submitting into the first *)
(* semester.                                                                *)

\* the options of the letter-grade select
gradeOptions(scl) ==
  IF scl = 10 THEN {"A+/O", "A", "B", "C", "D", "E", "F"}
  ELSE {"A+", "A", "A-", "B+", "B", "B-", "C+", "C", "C-", "D+", "D", "F"}

\* what is typed into the credits, marks and component fields
FormCredits == {Num(3)}
FormMarks == { Num(0), Num(40), Rat(81, 2), Num(85), Rat(171, 2), Num(90), Rat(181, 2),
               Num(91), Num(100), Num(101) }
FormComponents ==
  { [endsem |-> Num(45), midsem |-> Rat(45, 2), internals |-> Num(23)],
    [endsem |-> Num(50), midsem |-> Num(25),    internals |-> Num(25)],
    [endsem |-> Num(50), midsem |-> Num(25),    internals |-> Num(30)],
    [endsem |-> Num(60), midsem |-> Num(10),    internals |-> Num(10)] }

\* Math.min(100, endsemPercent + midsemPercent + internalsPercent) with the maxima
\* left at 50 and 25 (so internalsMax = 25 and no divisor is 0)
calculateTotalFromComponents(endsem, midsem, internals) ==
  LET endsemMaxVal     == Num(50)
      midsemMaxVal     == Num(25)
      internalsMax     == RSub(RSub(Num(100), endsemMaxVal), midsemMaxVal)
      endsemPercent    == RMul(RDiv(endsem, endsemMaxVal), endsemMaxVal)
      midsemPercent    == RMul(RDiv(midsem, midsemMaxVal), midsemMaxVal)
      internalsPercent == RMul(RDiv(internals, internalsMax), internalsMax)
      total            == RAdd(RAdd(endsemPercent, midsemPercent), internalsPercent)
  IN  IF RLt(total, Num(100)) THEN total ELSE Num(100)

\* the course handleSubmit builds from a letter grade
courseFromLetter(credits, letterGrade, scl) ==
  Course(credits,
         convertGradeToPoints(letterGrade, scl,
                              IF scl = 10 THEN BIT_MESRA_10_POINT ELSE NoTemplate),
         NULL, letterGrade)

\* the course handleSubmit builds from marks: graded only when scale = 10
courseFromMarks(credits, marksNum, scl) ==
  IF scl = 10
    THEN LET r == convertMarksToPoints(marksNum, BIT_MESRA_10_POINT)
         IN  Course(credits, r.points, marksNum, r.letter)
  ELSE Course(credits, NULL, marksNum, "")

handleSubmitLetter(semesterId, credits, letterGrade) ==
  addCourse(semesterId, courseFromLetter(credits, letterGrade, scale))

handleSubmitMarks(semesterId, credits, marksNum) ==
  /\ ~(RLt(marksNum, Zero) \/ RGt(marksNum, Num(100)))
  /\ addCourse(semesterId, courseFromMarks(credits, marksNum, scale))

handleSubmitComponents(semesterId, credits, components) ==
  addCourse(semesterId,
            courseFromMarks(credits,
                            calculateTotalFromComponents(components.endsem,
                                                         components.midsem,
                                                         components.internals),
                            scale))

\* a session of either scale with one semester and no course yet
FormInit ==
  /\ scale \in {4, 10}
  /\ semesters = << Semester(0, 0, << >>, NULL, NULL) >>
  /\ isLoaded = TRUE
  /\ localStorage = SessionOf(semesters, scale)
  /\ mount = Mounted(NoSession, SessionOf(<< >>, 10))

FormNext ==
  \/ \E credits \in FormCredits, letterGrade \in gradeOptions(scale) :
       handleSubmitLetter(semesters[1].id, credits, letterGrade)
  \/ \E credits \in FormCredits, marksNum \in FormMarks :
       handleSubmitMarks(semesters[1].id, credits, marksNum)
  \/ \E credits \in FormCredits, components \in FormComponents :
       handleSubmitComponents(semesters[1].id, credits, components)

FormSpec == FormInit /\ [][FormNext]_vars



-----------------------------------------------------------------------------
(* Sessions of manual-entry semesters, as imported from a file into a      *)
(* dashboard that was opened with nothing stored: the semester histories   *)
(* the statistics are computed over.                                       *)

\* most semesters of a loaded history
MaxHistory == 4

\* manual GPAs of a loaded semester on a scale; NULL is a semester without one
HistoryGPAs(scl) ==
  IF scl = 4 THEN {NULL, Rat(33, 10), Rat(17, 5), Rat(7, 2)}
  ELSE {NULL, Rat(33, 10), Num(6), Num(7), Rat(17, 2)}

\* the histories of a scale: semester j has id and order j - 1 and 18 credits
Histories(scl) ==
  UNION { { [j \in 1..n |-> Semester(j - 1, j - 1, << >>, gpas[j], Num(18))] :
              gpas \in [1..n -> HistoryGPAs(scl)] } : n \in 0..MaxHistory }

HistoryInit ==
  /\ scale \in {4, 10}
  /\ semesters \in Histories(scale)
  /\ isLoaded = TRUE
  /\ localStorage = SessionOf(semesters, scale)
  /\ mount = Mounted(NoSession, SessionOf(<< >>, 10))

HistoryNext ==
  \E i \in 1..Len(semesters) : deleteSemester(semesters[i].id)

HistorySpec == HistoryInit /\ [][HistoryNext]_vars

-----------------------------------------------------------------------------
(* The mount of DashboardPage: the first render with the initial state,    *)
(* the load effect and the save effect of that commit, the renders that    *)
(* apply the scheduled state updates, and the save effect after each.      *)

\* what localStorage holds under 'cgpa-session' when the page opens
StoredSessions ==
  {NoSession} \cup
  UNION { {SessionOf(h, scl) : h \in Histories(scl)} : scl \in {4, 10} }

\* JSON.parse of the stored item, null when there is none; the item is the
\* JSON.stringify of a session, which parses back to the same numbers and nulls
loadSession == localStorage

MountInit ==
  /\ semesters = << >>
  /\ scale = 10
  /\ isLoaded = FALSE
  /\ localStorage \in StoredSessions
  /\ mount = [toRun |-> {LoadEffect, SaveEffect}, pending |-> << >>,
              atMount |-> localStorage, firstSaved |-> NoSession]

\* useEffect(() => { loaded = loadSession(); if (loaded && loaded.semesters)
\* setSession(loaded); setIsLoaded(true) }, []): the updates are scheduled
loadEffect ==
  /\ LoadEffect \in mount.toRun
  /\ LET loaded == loadSession
     IN  mount' = [mount EXCEPT
                     !.toRun = @ \ {LoadEffect},
                     !.pending = @ \o (IF loaded # NoSession
                                         THEN << [set |-> "session", value |-> loaded] >>
                                         ELSE << >>)
                                   \o << [set |-> "isLoaded", value |-> TRUE] >>]
  /\ UNCHANGED <<semesters, scale, isLoaded, localStorage>>

\* a slip: the save effect without its isLoaded guard
saveEffect_Unguarded ==
  /\ SaveEffect \in mount.toRun
  /\ localStorage' = SessionOf(semesters, scale)
  /\ mount' = [Saved(mount, SessionOf(semesters, scale)) EXCEPT
                 !.toRun = @ \ {SaveEffect}]
  /\ UNCHANGED <<semesters, scale, isLoaded>>

\* useEffect(() => { if (isLoaded) saveSession(session) }, [session, isLoaded]),
\* with session and isLoaded as of the render the effect belongs to
saveEffect ==
  /\ SaveEffect \in mount.toRun
  /\ IF isLoaded
       THEN /\ localStorage' = SessionOf(semesters, scale)
            /\ mount' = [Saved(mount, SessionOf(semesters, scale)) EXCEPT
                           !.toRun = @ \ {SaveEffect}]
       ELSE /\ localStorage' = localStorage
            /\ mount' = [mount EXCEPT !.toRun = @ \ {SaveEffect}]
  /\ UNCHANGED <<semesters, scale, isLoaded>>

\* the state after the first k scheduled updates
RECURSIVE Applied(_, _, _)
Applied(state, updates, k) ==
  IF k = 0 THEN state
  ELSE LET before == Applied(state, updates, k - 1)
           u      == updates[k]
       IN  IF u.set = "session" THEN [before EXCEPT !.session = u.value]
           ELSE [before EXCEPT !.isLoaded = u.value]

\* a render once the effects of the commit have run: it applies the scheduled
\* updates, all of them or the first ones only, and a dependency of the save
\* effect having changed, that effect is to run again
render ==
  /\ mount.toRun = {}
  /\ mount.pending # << >>
  /\ \E k \in 1..Len(mount.pending) :
       LET after == Applied([session |-> SessionOf(semesters, scale),
                             isLoaded |-> isLoaded], mount.pending, k)
       IN  /\ semesters' = after.session.semesters
           /\ scale' = after.session.metadata.scale
           /\ isLoaded' = after.isLoaded
           /\ mount' = [mount EXCEPT
                          !.toRun = {SaveEffect},
                          !.pending = SubSeq(@, k + 1, Len(@))]
  /\ UNCHANGED localStorage

\* the effects of a commit run in either order, each once
MountNext ==
  \/ loadEffect
  \/ saveEffect
  \/ render
  \/ addSemester
  \/ \E i \in 1..Len(semesters) : deleteSemester(semesters[i].id)

MountSpec == MountInit /\ [][MountNext]_vars

-----------------------------------------------------------------------------
(* Statistics and the cross-semester target solver (statistics.ts).        *)
(* A session is [semesters, metadata |-> [scale]].                         *)

Session == [semesters |-> semesters, metadata |-> [scale |-> scale]]

\* semesterGPAs of calculateStatistics: the non-null effective GPAs, in list order
RECURSIVE SemesterGPAs(_, _)
SemesterGPAs(sems, i) ==
  IF i > Len(sems) THEN << >>
  ELSE LET gpa == getSemesterGPA(sems[i]).gpa
       IN  IF ~IsNull(gpa) THEN <<gpa>> \o SemesterGPAs(sems, i + 1)
           ELSE SemesterGPAs(sems, i + 1)

RECURSIVE TotalSemesterCredits(_, _)
TotalSemesterCredits(sems, i) ==
  IF i > Len(sems) THEN Zero
  ELSE RAdd(getSemesterCredits(sems[i]), TotalSemesterCredits(sems, i + 1))

\* Math.max(...xs) / Math.min(...xs) of a non-empty list
RECURSIVE MathMax(_, _)
MathMax(xs, i) ==
  IF i = Len(xs) THEN xs[i]
  ELSE LET m == MathMax(xs, i + 1) IN IF RGt(xs[i], m) THEN xs[i] ELSE m

RECURSIVE MathMin(_, _)
MathMin(xs, i) ==
  IF i = Len(xs) THEN xs[i]
  ELSE LET m == MathMin(xs, i + 1) IN IF RLt(xs[i], m) THEN xs[i] ELSE m

\* xs.reduce((a, b) => a + b, 0)
RECURSIVE SumOf(_, _)
SumOf(xs, i) == IF i > Len(xs) THEN Zero ELSE RAdd(xs[i], SumOf(xs, i + 1))

\* the keys of gradeDistribution: the (non-empty) grades of the session's courses
GradesIn(sems) ==
  UNION { {sems[i].courses[k].grade : k \in 1..Len(sems[i].courses)} :
          i \in 1..Len(sems) } \ {""}

RECURSIVE CountGrade(_, _, _)
CountGrade(courses, g, k) ==
  IF k > Len(courses) THEN 0
  ELSE (IF courses[k].grade = g THEN 1 ELSE 0) + CountGrade(courses, g, k + 1)

RECURSIVE CountGradeAll(_, _, _)
CountGradeAll(sems, g, i) ==
  IF i > Len(sems) THEN 0
  ELSE CountGrade(sems[i].courses, g, 1) + CountGradeAll(sems, g, i + 1)

\* a slip: a grade counted once per semester that has it
gradeDistributionOf_PerSemester(sems) ==
  [g \in GradesIn(sems) |->
     Cardinality({i \in 1..Len(sems) : CountGrade(sems[i].courses, g, 1) > 0})]

\* gradeDistribution[g]: the courses whose grade is g
gradeDistributionOf(sems) == [g \in GradesIn(sems) |-> CountGradeAll(sems, g, 1)]

\* a slip: the 0.2 margin rescaled by the session's scale (0.2 taken as 2% of it)
trendOf_ScaledMargin(semesterGPAs) ==
  IF Len(semesterGPAs) >= 2
    THEN LET n          == Len(semesterGPAs)
             recentGPAs == SubSeq(semesterGPAs, IF n > 3 THEN n - 2 ELSE 1, n)
             half       == Len(recentGPAs) \div 2
             firstHalf  == SubSeq(recentGPAs, 1, half)
             secondHalf == SubSeq(recentGPAs, half + 1, Len(recentGPAs))
             avgFirst   == RDiv(SumOf(firstHalf, 1), Num(Len(firstHalf)))
             avgSecond  == RDiv(SumOf(secondHalf, 1), Num(Len(secondHalf)))
             margin     == Rat(2 * scale, 100)
         IN  IF RGt(avgSecond, RAdd(avgFirst, margin)) THEN "improving"
             ELSE IF RLt(avgSecond, RSub(avgFirst, margin)) THEN "declining"
             ELSE "stable"
  ELSE "unknown"

\* the trend block of calculateStatistics
trendOf(semesterGPAs) ==
  IF Len(semesterGPAs) >= 2
    THEN LET n          == Len(semesterGPAs)
             recentGPAs == SubSeq(semesterGPAs, IF n > 3 THEN n - 2 ELSE 1, n)
             half       == Len(recentGPAs) \div 2
             firstHalf  == SubSeq(recentGPAs, 1, half)
             secondHalf == SubSeq(recentGPAs, half + 1, Len(recentGPAs))
             avgFirst   == RDiv(SumOf(firstHalf, 1), Num(Len(firstHalf)))
             avgSecond  == RDiv(SumOf(secondHalf, 1), Num(Len(secondHalf)))
         IN  IF RGt(avgSecond, RAdd(avgFirst, Rat(2, 10))) THEN "improving"
             ELSE IF RLt(avgSecond, RSub(avgFirst, Rat(2, 10))) THEN "declining"
             ELSE "stable"
  ELSE "unknown"

\* trendDirection of calculateStatistics: the trend of semesterGPAs
trendDirectionOf(session) == trendOf(SemesterGPAs(session.semesters, 1))

calculateStatistics(session) ==
  LET sems          == session.semesters
      semesterGPAs  == SemesterGPAs(sems, 1)
      totalCredits  == TotalSemesterCredits(sems, 1)
      semestersWithData == Len(semesterGPAs)
      averageCreditsPerSemester ==
        IF semestersWithData > 0 THEN RDiv(totalCredits, Num(semestersWithData))
        ELSE Zero
  IN  [ totalCourses |-> CountCourses(sems, 1),
        totalCredits |-> totalCredits,
        averageCreditsPerSemester |-> OrZero(roundForDisplay(averageCreditsPerSemester)),
        highestSemesterGPA |->
          roundForDisplay(IF Len(semesterGPAs) > 0 THEN MathMax(semesterGPAs, 1) ELSE NULL),
        lowestSemesterGPA |->
          roundForDisplay(IF Len(semesterGPAs) > 0 THEN MathMin(semesterGPAs, 1) ELSE NULL),
        gradeDistribution |-> gradeDistributionOf(sems),
        trendDirection |-> trendDirectionOf(session) ]

\* a slip: the credits of ungraded courses left out of creditsCompleted
RECURSIVE GradedCreditsOnly(_, _)
GradedCreditsOnly(sems, i) ==
  IF i > Len(sems) THEN Zero
  ELSE RAdd(IF Len(sems[i].courses) > 0
              THEN GPAAccumulate(sems[i].courses, 1, Zero, Zero).totalCredits
              ELSE getSemesterCredits(sems[i]),
            GradedCreditsOnly(sems, i + 1))

creditsCompleted_GradedOnly(session) == GradedCreditsOnly(session.semesters, 1)

\* creditsCompleted of calculateTargetGPA: getSemesterCredits summed over the semesters
creditsCompletedOf(session) == TotalSemesterCredits(session.semesters, 1)

\* the local values of calculateTargetGPA, before the result is rounded
targetGPALocals(session, targetCGPA, creditsRemaining) ==
  LET currentCGPA      == OrZero(calculateCGPA(session.semesters))
      creditsCompleted == creditsCompletedOf(session)
      requiredGPA ==
        IF RGt(creditsRemaining, Zero)
          THEN RDiv(RSub(RMul(targetCGPA, RAdd(creditsCompleted, creditsRemaining)),
                         RMul(currentCGPA, creditsCompleted)),
                    creditsRemaining)
          ELSE Zero
      maxPossible == IF session.metadata.scale = 0 THEN Num(10)
                     ELSE Num(session.metadata.scale)
      feasible    == RLe(requiredGPA, maxPossible) /\ RGe(requiredGPA, Zero)
  IN  [ currentCGPA |-> currentCGPA, creditsCompleted |-> creditsCompleted,
        requiredGPA |-> requiredGPA, maxPossible |-> maxPossible,
        feasible |-> feasible,
        message |->
          IF ~feasible
            THEN IF RGt(requiredGPA, maxPossible) THEN "Not achievable!"
                 ELSE "Target already achieved!"
          ELSE IF RGe(requiredGPA, RMul(maxPossible, Rat(9, 10))) THEN "Very challenging!"
          ELSE IF RGe(requiredGPA, RMul(maxPossible, Rat(7, 10))) THEN "Achievable with effort!"
          ELSE "Easily achievable!" ]

\* a slip: the message breakpoints fixed at 9 and 7 instead of 90% and 70% of the
\* scale maximum
calculateTargetGPA_FixedBreakpoints(session, targetCGPA, creditsRemaining) ==
  LET l == targetGPALocals(session, targetCGPA, creditsRemaining)
  IN  [ targetCGPA |-> targetCGPA,
        currentCGPA |-> OrZero(roundForDisplay(l.currentCGPA)),
        creditsCompleted |-> l.creditsCompleted,
        creditsRemaining |-> creditsRemaining,
        requiredGPA |-> OrZero(roundForDisplay(l.requiredGPA)),
        feasible |-> l.feasible,
        message |->
          IF ~l.feasible THEN l.message
          ELSE IF RGe(l.requiredGPA, Num(9)) THEN "Very challenging!"
          ELSE IF RGe(l.requiredGPA, Num(7)) THEN "Achievable with effort!"
          ELSE "Easily achievable!" ]

calculateTargetGPA(session, targetCGPA, creditsRemaining) ==
  LET l == targetGPALocals(session, targetCGPA, creditsRemaining)
  IN  [ targetCGPA |-> targetCGPA,
        currentCGPA |-> OrZero(roundForDisplay(l.currentCGPA)),
        creditsCompleted |-> l.creditsCompleted,
        creditsRemaining |-> creditsRemaining,
        requiredGPA |-> OrZero(roundForDisplay(l.requiredGPA)),
        feasible |-> l.feasible,
        message |-> l.message ]


-----------------------------------------------------------------------------
(* Intra-semester target solver (intrasemester).                           *)

\* courses.filter(c => c.gradePoint !== null && c.gradePoint !== undefined)
gradedCourses(courses) ==
  FilterIdx(courses, {k \in 1..Len(courses) : ~IsNull(courses[k].gradePoint)}, 1)

\* courses.filter(c => c.gradePoint === null || c.gradePoint === undefined)
ungradedCourses(courses) ==
  FilterIdx(courses, {k \in 1..Len(courses) : IsNull(courses[k].gradePoint)}, 1)

\* courses.reduce((sum, c) => sum + c.credits, 0)
RECURSIVE SumPlainCredits(_, _)
SumPlainCredits(courses, k) ==
  IF k > Len(courses) THEN Zero
  ELSE RAdd(courses[k].credits, SumPlainCredits(courses, k + 1))

\* courses.reduce((sum, c) => sum + (c.gradePoint || 0) * c.credits, 0)
RECURSIVE SumPoints(_, _)
SumPoints(courses, k) ==
  IF k > Len(courses) THEN Zero
  ELSE RAdd(RMul(OrZero(courses[k].gradePoint), courses[k].credits),
            SumPoints(courses, k + 1))

\* const template = scale === 10 ? BIT_MESRA_10_POINT : undefined
recommendationTemplate(scl) == IF scl = 10 THEN BIT_MESRA_10_POINT ELSE NoTemplate

\* the for-loop over template.mappings: every mapping that reaches requiredGP
\* overwrites {marksNeeded, gradeNeeded}
RECURSIVE ReverseMapLoop(_, _, _, _, _)
ReverseMapLoop(mappings, i, requiredGP, marksNeeded, gradeNeeded) ==
  IF i > Len(mappings) THEN [marksNeeded |-> marksNeeded, gradeNeeded |-> gradeNeeded]
  ELSE IF RGe(mappings[i].gradePoint, requiredGP)
    THEN ReverseMapLoop(mappings, i + 1, requiredGP,
                        mappings[i].minMarks, mappings[i].letterGrade)
  ELSE ReverseMapLoop(mappings, i + 1, requiredGP, marksNeeded, gradeNeeded)

\* {marksNeeded, gradeNeeded} of one recommendation: the body of `if (template)`
reverseMap(template, requiredGP) ==
  IF Len(template.mappings) = 0 THEN [marksNeeded |-> 0, gradeNeeded |-> "N/A"]
  ELSE LET found == ReverseMapLoop(template.mappings, 1, requiredGP, 0, "N/A")
       IN  IF RGt(requiredGP, template.mappings[1].gradePoint)
             THEN [marksNeeded |-> 100,
                   gradeNeeded |-> template.mappings[1].letterGrade \o "+"]
           ELSE found

\* one element of recommendations (Math.round leaves the whole marks unchanged)
recommendationFor(course, avgGPANeeded, scl) ==
  LET requiredGP == avgGPANeeded
      needed     == reverseMap(recommendationTemplate(scl), requiredGP)
  IN  [ currentMarks |-> course.marks,
        marksNeeded  |-> needed.marksNeeded,
        gradeNeeded  |-> needed.gradeNeeded,
        feasible     |-> needed.marksNeeded <= 100 ]

\* a slip: the points already earned are not taken off the points needed
avgGPANeededOf_IgnoreEarned(courses, targetGPA) ==
  LET remainingCredits == SumPlainCredits(ungradedCourses(courses), 1)
  IN  IF RGt(remainingCredits, Zero)
        THEN RDiv(RMul(targetGPA, SumPlainCredits(courses, 1)), remainingCredits)
        ELSE Zero

\* JavaScript's x / y where y may be 0: NaN or an infinity, written with d = 0
DivideUnguarded(x, y) ==
  IF y.n = 0
    THEN [null |-> FALSE, n |-> IF x.n > 0 THEN 1 ELSE IF x.n < 0 THEN -1 ELSE 0, d |-> 0]
  ELSE RDiv(x, y)

\* a slip: the division by remainingCredits without its guard
avgGPANeededOf_Unguarded(courses, targetGPA) ==
  DivideUnguarded(RSub(RMul(targetGPA, SumPlainCredits(courses, 1)),
                       SumPoints(gradedCourses(courses), 1)),
                  SumPlainCredits(ungradedCourses(courses), 1))

\* avgGPANeeded of calculateIntraSemesterTarget
avgGPANeededOf(courses, targetGPA) ==
  LET coursesWithMarks     == gradedCourses(courses)
      coursesNeedingGrades == ungradedCourses(courses)
      totalCredits     == SumPlainCredits(courses, 1)
      completedCredits == SumPlainCredits(coursesWithMarks, 1)
      remainingCredits == SumPlainCredits(coursesNeedingGrades, 1)
      currentPoints    == SumPoints(coursesWithMarks, 1)
      targetPoints     == RMul(targetGPA, totalCredits)
      pointsNeeded     == RSub(targetPoints, currentPoints)
  IN  IF RGt(remainingCredits, Zero) THEN RDiv(pointsNeeded, remainingCredits)
      ELSE Zero

calculateIntraSemesterTarget(semester, targetGPA, scl) ==
  LET coursesWithMarks     == gradedCourses(semester.courses)
      coursesNeedingGrades == ungradedCourses(semester.courses)
      currentGPA           == calculateGPA(coursesWithMarks)
      achieved             == ~IsNull(currentGPA) /\ RGe(currentGPA, targetGPA)
      avgGPANeeded         == avgGPANeededOf(semester.courses, targetGPA)
      feasible == RLe(avgGPANeeded, Num(scl)) /\ RGe(avgGPANeeded, Zero)
  IN  IF Len(coursesNeedingGrades) = 0
        THEN [ currentSemesterGPA |-> currentGPA,
               targetSemesterGPA |-> targetGPA,
               coursesWithMarks |-> coursesWithMarks,
               coursesNeedingGrades |-> << >>,
               recommendations |-> << >>,
               avgGPANeeded |-> NULL,
               feasible |-> achieved,
               message |-> IF achieved THEN "You've already achieved"
                           ELSE "All courses graded." ]
      ELSE [ currentSemesterGPA |-> currentGPA,
             targetSemesterGPA |-> targetGPA,
             coursesWithMarks |-> coursesWithMarks,
             coursesNeedingGrades |-> coursesNeedingGrades,
             recommendations |->
               [k \in 1..Len(coursesNeedingGrades) |->
                  recommendationFor(coursesNeedingGrades[k], avgGPANeeded, scl)],
             avgGPANeeded |-> avgGPANeeded,
             feasible |-> feasible,
             message |->
               IF ~feasible
                 THEN IF RGt(avgGPANeeded, Num(scl)) THEN "Target not achievable!"
                      ELSE "Target already exceeded!"
               ELSE IF RGe(avgGPANeeded, RMul(Num(scl), Rat(9, 10))) THEN "Very challenging!"
               ELSE IF RGe(avgGPANeeded, RMul(Num(scl), Rat(7, 10)))
                 THEN "Achievable with good performance!"
               ELSE "Easily achievable!" ]

-----------------------------------------------------------------------------
(* Chart-data projectors (chartData).                                      *)

\* [...arr].sort((a, b) => a.order - b.order): a stable sort by `order`
RECURSIVE InsertByOrder(_, _)
InsertByOrder(sorted, s) ==
  IF Len(sorted) = 0 THEN <<s>>
  ELSE IF sorted[Len(sorted)].order <= s.order THEN Append(sorted, s)
  ELSE Append(InsertByOrder(SubSeq(sorted, 1, Len(sorted) - 1), s), sorted[Len(sorted)])

RECURSIVE SortByOrder(_, _)
SortByOrder(sems, n) ==
  IF n = 0 THEN << >> ELSE InsertByOrder(SortByOrder(sems, n - 1), sems[n])

\* the map callback of getCGPATimeline over sortedSemesters[i..], carrying the
\* closure variables cumulativePoints and cumulativeCredits
RECURSIVE TimelineFrom(_, _, _, _)
TimelineFrom(sorted, i, cumulativePoints, cumulativeCredits) ==
  IF i > Len(sorted) THEN << >>
  ELSE LET semesterGPA     == getSemesterGPA(sorted[i]).gpa
           semesterCredits == getSemesterCredits(sorted[i])
           counts == ~IsNull(semesterGPA) /\ RGt(semesterCredits, Zero)
           points == IF counts
                       THEN RAdd(cumulativePoints, RMul(semesterGPA, semesterCredits))
                       ELSE cumulativePoints
           creds  == IF counts THEN RAdd(cumulativeCredits, semesterCredits)
                     ELSE cumulativeCredits
           cgpa   == IF RGt(creds, Zero) THEN RDiv(points, creds) ELSE Zero
       IN  << [ id |-> sorted[i].id,
                CGPA |-> OrZero(roundForDisplay(cgpa)),
                SemesterGPA |-> OrZero(roundForDisplay(semesterGPA)),
                value |-> OrZero(roundForDisplay(cgpa)) ] >>
           \o TimelineFrom(sorted, i + 1, points, creds)

\* a slip: the semesters taken in list position, the sort by `order` left out
getCGPATimeline_ListOrder(session) == TimelineFrom(session.semesters, 1, Zero, Zero)

getCGPATimeline(session) ==
  TimelineFrom(SortByOrder(session.semesters, Len(session.semesters)), 1, Zero, Zero)

\* calculateGradeDistribution (calculator.ts): the same double loop as the one of
\* calculateStatistics
calculateGradeDistribution(sems) == gradeDistributionOf(sems)

\* the grades of courses[k..] that are neither absent nor in `keys`, appended to
\* `keys` in order of first occurrence: the key order of the distribution object
RECURSIVE KeysOfCourses(_, _, _)
KeysOfCourses(courses, k, keys) ==
  IF k > Len(courses) THEN keys
  ELSE IF courses[k].grade = "" \/ \E j \in 1..Len(keys) : keys[j] = courses[k].grade
    THEN KeysOfCourses(courses, k + 1, keys)
  ELSE KeysOfCourses(courses, k + 1, Append(keys, courses[k].grade))

RECURSIVE KeysOfSemesters(_, _, _)
KeysOfSemesters(sems, i, keys) ==
  IF i > Len(sems) THEN keys
  ELSE KeysOfSemesters(sems, i + 1, KeysOfCourses(sems[i].courses, 1, keys))

\* .sort((a, b) => b.value - a.value): a stable sort by descending value
RECURSIVE InsertByValue(_, _)
InsertByValue(sorted, point) ==
  IF Len(sorted) = 0 THEN <<point>>
  ELSE IF sorted[Len(sorted)].value >= point.value THEN Append(sorted, point)
  ELSE Append(InsertByValue(SubSeq(sorted, 1, Len(sorted) - 1), point),
              sorted[Len(sorted)])

RECURSIVE SortByValue(_, _)
SortByValue(points, n) ==
  IF n = 0 THEN << >> ELSE InsertByValue(SortByValue(points, n - 1), points[n])

\* s.manualGPA as a condition: neither null nor 0
getGradeDistribution(session) ==
  LET sems   == session.semesters
      keys   == KeysOfSemesters(sems, 1, << >>)
      points == [j \in 1..Len(keys) |->
                   [name  |-> keys[j],
                    value |-> CountGradeAll(sems, keys[j], 1),
                    count |-> CountGradeAll(sems, keys[j], 1)]]
      hasManualEntries == \E i \in 1..Len(sems) : ~IsNull(sems[i].manualGPA)
  IN  IF Len(keys) = 0 /\ hasManualEntries
        THEN << [name  |-> "Manual Entry",
                 value |-> 1,
                 count |-> Cardinality({i \in 1..Len(sems) :
                                          /\ ~IsNull(sems[i].manualGPA)
                                          /\ sems[i].manualGPA # Zero})] >>
      ELSE SortByValue(points, Len(points))

getSemesterComparison(session) ==
  LET sortedSemesters == SortByOrder(session.semesters, Len(session.semesters))
  IN  [i \in 1..Len(sortedSemesters) |->
         LET gpa == getSemesterGPA(sortedSemesters[i]).gpa
         IN  [ id |-> sortedSemesters[i].id,
               GPA |-> OrZero(roundForDisplay(gpa)),
               value |-> OrZero(roundForDisplay(gpa)) ]]


-----------------------------------------------------------------------------
(* The projectors that call a mutating array method (Array.prototype.sort   *)
(* sorts the array it is called on), as steps over a heap of arrays: the    *)
(* array session.semesters the caller passed, and the arrays the call       *)
(* allocates.  A call gives the heap it leaves and the value it returns.    *)
(* The other functions of the engine contain no assignment to a property of *)
(* their arguments and call no mutating method.                             *)

\* the heap a caller holds: the array of its session
HeapOf(session) == [ref \in {"session.semesters"} |-> session.semesters]

\* [...heap[from]]: a new array `to` with the elements of `from`
SpreadInto(heap, from, to) == (to :> heap[from]) @@ heap

\* heap[ref].sort((a, b) => a.order - b.order), in place
SortInPlaceByOrder(heap, ref) == [heap EXCEPT ![ref] = SortByOrder(@, Len(@))]

\* a slip: session.semesters sorted itself, the copy left out
callGetCGPATimeline_SortsInput(heap) ==
  LET sorted == SortInPlaceByOrder(heap, "session.semesters")
  IN  [heap |-> sorted,
       returned |-> TimelineFrom(sorted["session.semesters"], 1, Zero, Zero)]

callGetCGPATimeline(heap) ==
  LET copied == SpreadInto(heap, "session.semesters", "sortedSemesters")
      sorted == SortInPlaceByOrder(copied, "sortedSemesters")
  IN  [heap |-> sorted,
       returned |-> TimelineFrom(sorted["sortedSemesters"], 1, Zero, Zero)]

callGetSemesterComparison(heap) ==
  LET copied == SpreadInto(heap, "session.semesters", "sortedSemesters")
      sorted == SortInPlaceByOrder(copied, "sortedSemesters")
      sortedSemesters == sorted["sortedSemesters"]
  IN  [heap |-> sorted,
       returned |->
         [i \in 1..Len(sortedSemesters) |->
            LET gpa == getSemesterGPA(sortedSemesters[i]).gpa
            IN  [ id |-> sortedSemesters[i].id,
                  GPA |-> OrZero(roundForDisplay(gpa)),
                  value |-> OrZero(roundForDisplay(gpa)) ]]]

\* allCourses.push({name, gradePoint}) for the graded courses of courses[k..]
RECURSIVE PushGraded(_, _, _)
PushGraded(courses, k, allCourses) ==
  IF k > Len(courses) THEN allCourses
  ELSE IF IsNull(courses[k].gradePoint) THEN PushGraded(courses, k + 1, allCourses)
  ELSE PushGraded(courses, k + 1,
                  Append(allCourses, [gradePoint |-> courses[k].gradePoint]))

RECURSIVE PushGradedAll(_, _, _)
PushGradedAll(sems, i, allCourses) ==
  IF i > Len(sems) THEN allCourses
  ELSE PushGradedAll(sems, i + 1, PushGraded(sems[i].courses, 1, allCourses))

\* .sort((a, b) => b.gradePoint - a.gradePoint): a stable sort, highest first
RECURSIVE InsertByGradePoint(_, _)
InsertByGradePoint(sorted, c) ==
  IF Len(sorted) = 0 THEN <<c>>
  ELSE IF RGe(sorted[Len(sorted)].gradePoint, c.gradePoint) THEN Append(sorted, c)
  ELSE Append(InsertByGradePoint(SubSeq(sorted, 1, Len(sorted) - 1), c),
              sorted[Len(sorted)])

RECURSIVE SortByGradePoint(_, _)
SortByGradePoint(arr, n) ==
  IF n = 0 THEN << >> ELSE InsertByGradePoint(SortByGradePoint(arr, n - 1), arr[n])

\* getTopCourses(session, count): allCourses is a new array of new objects, sorted
\* in place and sliced; a point carries the grade point
callGetTopCourses(heap, count) ==
  LET pushed == ("allCourses" :> PushGradedAll(heap["session.semesters"], 1, << >>))
                  @@ heap
      sorted == [pushed EXCEPT !["allCourses"] = SortByGradePoint(@, Len(@))]
      top    == SubSeq(sorted["allCourses"], 1,
                       IF count < Len(sorted["allCourses"]) THEN count
                       ELSE Len(sorted["allCourses"]))
  IN  [heap |-> sorted,
       returned |-> [j \in 1..Len(top) |->
                       [GradePoint |-> top[j].gradePoint, value |-> top[j].gradePoint]]]

-----------------------------------------------------------------------------
(* Scale conversion (calculator.ts, convertScale) in the arithmetic of the   *)
(* language's numbers: IEEE 754 binary64, round to nearest, ties to even.    *)
(* A natural number is a sequence of limbs, least significant first; a       *)
(* positive number is [m, e] with 2^52 <= m < 2^53 and value m * 2^e; zero   *)
(* has m = << >>.  Negative numbers, subnormals and overflow do not occur    *)
(* for grade points.                                                        *)

LimbBase == 2^20

\* x without leading zero limbs
RECURSIVE BigTrim(_)
BigTrim(x) ==
  IF Len(x) > 0 /\ x[Len(x)] = 0 THEN BigTrim(SubSeq(x, 1, Len(x) - 1)) ELSE x

\* x * k for 0 <= k <= 2^10, from limb i on with a carry
RECURSIVE BigMulLoop(_, _, _, _)
BigMulLoop(x, k, i, carry) ==
  IF i > Len(x) THEN (IF carry = 0 THEN << >> ELSE <<carry>>)
  ELSE LET t == x[i] * k + carry
       IN  <<t % LimbBase>> \o BigMulLoop(x, k, i + 1, t \div LimbBase)

BigMulSmall(x, k) == BigTrim(BigMulLoop(x, k, 1, 0))

\* quotient and remainder of x / k for 0 < k <= 2^10, from limb i down
RECURSIVE BigDivLoop(_, _, _, _)
BigDivLoop(x, k, i, rem) ==
  IF i = 0 THEN [q |-> << >>, r |-> rem]
  ELSE LET t    == rem * LimbBase + x[i]
           rest == BigDivLoop(x, k, i - 1, t % k)
       IN  [q |-> Append(rest.q, t \div k), r |-> rest.r]

BigDivSmall(x, k) ==
  LET d == BigDivLoop(x, k, Len(x), 0) IN [q |-> BigTrim(d.q), r |-> d.r]

RECURSIVE BigAddLoop(_, _, _, _)
BigAddLoop(x, y, i, carry) ==
  IF i > Len(x) /\ i > Len(y) THEN (IF carry = 0 THEN << >> ELSE <<carry>>)
  ELSE LET t == (IF i <= Len(x) THEN x[i] ELSE 0)
                  + (IF i <= Len(y) THEN y[i] ELSE 0) + carry
       IN  <<t % LimbBase>> \o BigAddLoop(x, y, i + 1, t \div LimbBase)

BigAdd(x, y) == BigTrim(BigAddLoop(x, y, 1, 0))

BigIsOdd(x) == Len(x) > 0 /\ x[1] % 2 = 1

\* the number of bits of a limb, and of x
LimbBitLength(n) == CHOOSE b \in 0..20 : n < 2^b /\ (b = 0 \/ n >= 2^(b - 1))
BigBitLength(x) ==
  IF Len(x) = 0 THEN 0 ELSE 20 * (Len(x) - 1) + LimbBitLength(x[Len(x)])

\* x * 2^s
BigShiftLeft(x, s) ==
  LET bits  == s % 20
      low   == IF bits > 10 THEN 10 ELSE bits
      moved == BigMulSmall(BigMulSmall(x, 2^low), 2^(bits - low))
  IN  IF Len(x) = 0 THEN << >> ELSE [i \in 1..(s \div 20) |-> 0] \o moved

\* floor(x / 2^s), and whether a bit that was dropped was 1
BigShiftRight(x, s) ==
  LET limbs   == IF s \div 20 > Len(x) THEN Len(x) ELSE s \div 20
      bits    == s % 20
      low     == IF bits > 10 THEN 10 ELSE bits
      kept    == SubSeq(x, limbs + 1, Len(x))
      first   == BigDivSmall(kept, 2^low)
      second  == BigDivSmall(first.q, 2^(bits - low))
  IN  [q |-> second.q,
       sticky |-> \/ \E i \in 1..limbs : x[i] # 0
                  \/ first.r # 0
                  \/ second.r # 0]

DZero == [m |-> << >>, e |-> 0]

\* the binary64 number nearest to n * 2^e (to n * 2^e plus a positive fraction of
\* 2^e when sticky), ties to even; n >= 2^54 when sticky
RoundToDouble(n, e, sticky) ==
  LET len == BigBitLength(n)
  IN  IF len = 0 THEN DZero
      ELSE IF len <= 53
        THEN [m |-> BigShiftLeft(n, 53 - len), e |-> e - (53 - len)]
      ELSE LET s       == len - 53
               shifted == BigShiftRight(n, s - 1)
               q       == BigDivSmall(shifted.q, 2).q
               up      == /\ BigIsOdd(shifted.q)
                          /\ (sticky \/ shifted.sticky \/ BigIsOdd(q))
               m       == IF up THEN BigAdd(q, <<1>>) ELSE q
           IN  IF BigBitLength(m) = 54
                 THEN [m |-> BigDivSmall(m, 2).q, e |-> e + s + 1]
               ELSE [m |-> m, e |-> e + s]

\* x / k and x * k in binary64, for a whole k with 0 < k <= 2^10
DDivSmall(x, k) ==
  IF x = DZero THEN DZero
  ELSE LET d == BigDivSmall(BigShiftLeft(x.m, 12), k)
       IN  RoundToDouble(d.q, x.e - 12, d.r # 0)

DMulSmall(x, k) == RoundToDouble(BigMulSmall(x.m, k), x.e, FALSE)

\* x * 0.4 in binary64: the literal 0.4 is (2^55 + 2) / 5 * 2^-54
DMulPoint4(x) ==
  RoundToDouble(BigDivSmall(BigAdd(BigShiftLeft(x.m, 55), BigMulSmall(x.m, 2)), 5).q,
                x.e - 54, FALSE)

\* x * 2.5 in binary64
DMulTwoPoint5(x) ==
  LET p == DMulSmall(x, 5) IN IF p = DZero THEN DZero ELSE [p EXCEPT !.e = @ - 1]

\* the binary64 number of the quotient n / d of two whole numbers, as the engine's
\* division totalPoints / totalCredits produces it; also the value of a decimal
\* literal n / d
DoubleOf(x) == DDivSmall(RoundToDouble(BigTrim(<<x.n>>), 0, FALSE), x.d)

\* x >= y for two non-negative binary64 numbers
RECURSIVE BigGeLoop(_, _, _)
BigGeLoop(x, y, i) ==
  IF i = 0 THEN TRUE
  ELSE IF x[i] # y[i] THEN x[i] > y[i]
  ELSE BigGeLoop(x, y, i - 1)

DGe(x, y) ==
  IF y = DZero THEN TRUE
  ELSE IF x = DZero THEN FALSE
  ELSE IF x.e # y.e THEN x.e > y.e
  ELSE BigGeLoop(x.m, y.m, Len(x.m))

\* x + y in binary64: the exact sum of the two numbers, rounded
DAdd(x, y) ==
  IF x = DZero THEN y
  ELSE IF y = DZero THEN x
  ELSE IF x.e >= y.e
    THEN RoundToDouble(BigAdd(BigShiftLeft(x.m, x.e - y.e), y.m), y.e, FALSE)
  ELSE RoundToDouble(BigAdd(BigShiftLeft(y.m, y.e - x.e), x.m), x.e, FALSE)

\* the for-loop of calculateGPA in binary64: totalPoints is a binary64 number,
\* totalCredits a whole number (credits are whole, their sum is exact); the
\* gradePoint is the binary64 number of its decimal
RECURSIVE GPAAccumulate_binary64(_, _, _, _)
GPAAccumulate_binary64(courses, i, totalPoints, totalCredits) ==
  IF i > Len(courses) THEN [totalPoints |-> totalPoints, totalCredits |-> totalCredits]
  ELSE LET course == courses[i] IN
       IF IsNull(course.gradePoint)
         THEN GPAAccumulate_binary64(courses, i + 1, totalPoints, totalCredits)
       ELSE IF course.credits = Zero
         THEN GPAAccumulate_binary64(courses, i + 1, totalPoints, totalCredits)
       ELSE GPAAccumulate_binary64(courses, i + 1,
              DAdd(totalPoints, DMulSmall(DoubleOf(course.gradePoint), course.credits.n)),
              totalCredits + course.credits.n)

\* calculateGPA in binary64; NULL when no course qualifies
calculateGPA_binary64(courses) ==
  LET acc == GPAAccumulate_binary64(courses, 1, DZero, 0)
  IN  IF acc.totalCredits = 0 THEN NULL
      ELSE DDivSmall(acc.totalPoints, acc.totalCredits)

\* the outer for-loop of calculateCGPA in binary64
RECURSIVE CGPAAccumulate_binary64(_, _, _, _)
CGPAAccumulate_binary64(sems, i, totalPoints, totalCredits) ==
  IF i > Len(sems) THEN [totalPoints |-> totalPoints, totalCredits |-> totalCredits]
  ELSE LET semester == sems[i] IN
       IF Len(semester.courses) > 0
         THEN LET acc == GPAAccumulate_binary64(semester.courses, 1,
                                                totalPoints, totalCredits)
              IN  CGPAAccumulate_binary64(sems, i + 1, acc.totalPoints, acc.totalCredits)
       ELSE IF /\ ~IsNull(semester.manualGPA)
               /\ ~IsNull(semester.manualCredits)
               /\ RGt(semester.manualCredits, Zero)
         THEN CGPAAccumulate_binary64(sems, i + 1,
                DAdd(totalPoints,
                     DMulSmall(DoubleOf(semester.manualGPA), semester.manualCredits.n)),
                totalCredits + semester.manualCredits.n)
       ELSE CGPAAccumulate_binary64(sems, i + 1, totalPoints, totalCredits)

\* calculateCGPA in binary64; NULL when no semester counts
calculateCGPA_binary64(sems) ==
  LET acc == CGPAAccumulate_binary64(sems, 1, DZero, 0)
  IN  IF acc.totalCredits = 0 THEN NULL
      ELSE DDivSmall(acc.totalPoints, acc.totalCredits)

\* a slip: the early return for fromScale === toScale left out
convertScale_NoShortcut(value, fromScale, toScale, method) ==
  IF fromScale = 10 /\ toScale = 4
    THEN [convertedValue |-> DMulSmall(DDivSmall(value, 10), 4), formula |-> "Linear"]
  ELSE [convertedValue |-> DMulSmall(DDivSmall(value, 4), 10), formula |-> "Linear"]

\* the result's formula is kept as its kind
convertScale(value, fromScale, toScale, method) ==
  LET official(v) == [convertedValue |-> DoubleOf(v), formula |-> "Official mapping"]
      at(v)       == DGe(value, DoubleOf(v))
  IN  IF fromScale = toScale
        THEN [convertedValue |-> value, formula |-> "Same scale"]
      ELSE IF method = "official"
        THEN IF fromScale = 10 /\ toScale = 4
               THEN IF at(Rat(95, 10)) THEN official(Num(4))
                    ELSE IF at(Rat(85, 10)) THEN official(Rat(37, 10))
                    ELSE IF at(Rat(75, 10)) THEN official(Rat(33, 10))
                    ELSE IF at(Rat(65, 10)) THEN official(Num(3))
                    ELSE IF at(Rat(55, 10)) THEN official(Rat(27, 10))
                    ELSE IF at(Num(5)) THEN official(Num(2))
                    ELSE [convertedValue |-> DMulPoint4(value),
                          formula |-> "Official mapping"]
             ELSE IF at(Rat(37, 10)) THEN official(Num(9))
                  ELSE IF at(Rat(33, 10)) THEN official(Num(8))
                  ELSE IF at(Num(3)) THEN official(Num(7))
                  ELSE IF at(Rat(27, 10)) THEN official(Num(6))
                  ELSE IF at(Num(2)) THEN official(Rat(55, 10))
                  ELSE [convertedValue |-> DMulTwoPoint5(value),
                        formula |-> "Official mapping"]
      ELSE IF fromScale = 10 /\ toScale = 4
        THEN [convertedValue |-> DMulSmall(DDivSmall(value, 10), 4),
              formula |-> "Linear"]
      ELSE [convertedValue |-> DMulSmall(DDivSmall(value, 4), 10),
            formula |-> "Linear"]

-----------------------------------------------------------------------------
(* Properties.  Each is stated independently of the loops above: sums are  *)
(* taken over index sets chosen by the property's own condition.           *)

\* the sum of f[k] over the indices k in S
RECURSIVE SumOver(_, _)
SumOver(f, S) ==
  IF S = {} THEN Zero
  ELSE LET k == CHOOSE x \in S : TRUE IN RAdd(f[k], SumOver(f, S \ {k}))

\* the courses that have a gradePoint and credits > 0
Qualifying(courses) ==
  {k \in 1..Len(courses) :
     ~IsNull(courses[k].gradePoint) /\ RGt(courses[k].credits, Zero)}

\* sum(gradePoint * credits) / sum(credits) over the qualifying courses, else null
WeightedAverage(courses) ==
  LET Q == Qualifying(courses)
  IN  IF Q = {} THEN NULL
      ELSE RDiv(SumOver([k \in Q |-> RMul(courses[k].gradePoint, courses[k].credits)], Q),
                SumOver([k \in Q |-> courses[k].credits], Q))

\* sum(gpa_i * weight_i) / sum(weight_i) over the semesters whose effective GPA is
\* defined and whose weight is non-zero, else null
SemesterWeightedAverage(sems, weight) ==
  LET Q == {i \in 1..Len(sems) :
              ~IsNull(getSemesterGPA(sems[i]).gpa) /\ weight[i] # Zero}
  IN  IF Q = {} THEN NULL
      ELSE RDiv(SumOver([i \in Q |-> RMul(getSemesterGPA(sems[i]).gpa, weight[i])], Q),
                SumOver([i \in Q |-> weight[i]], Q))

\* the credits behind a semester's effective GPA: those of its qualifying courses,
\* or manualCredits (0 when unset) for a semester without courses
GradedCredits(semester) ==
  IF Len(semester.courses) > 0
    THEN LET Q == Qualifying(semester.courses)
         IN  SumOver([k \in Q |-> semester.courses[k].credits], Q)
  ELSE OrZero(semester.manualCredits)

PartiallyGraded(semester) ==
  /\ Qualifying(semester.courses) # {}
  /\ \E k \in 1..Len(semester.courses) :
       /\ IsNull(semester.courses[k].gradePoint)
       /\ RGt(semester.courses[k].credits, Zero)

\* the scenario of the specification: 8.0 over 20 credits, and a manual 7.0 over 18
ScenarioSemesters ==
  << Semester(0, 0, << Course(Num(20), Num(8), NULL, "B") >>, NULL, NULL),
     Semester(1, 1, << >>, Num(7), Num(18)) >>

\* C1 as claimed: calculateCGPA is sum(effectiveGPA * effectiveCredits) /
\* sum(effectiveCredits), with effectiveCredits = getSemesterCredits, over the
\* semesters with a defined effective GPA and non-zero effective credits
\* (partially graded semesters included), and null when none qualifies.
C1_CGPAWeightedByEffectiveCredits ==
  calculateCGPA(semesters) =
    SemesterWeightedAverage(semesters,
      [i \in 1..Len(semesters) |-> getSemesterCredits(semesters[i])])

\* C1 as amended: the weight of a semester is the credits of its graded courses
\* with credits > 0 (manualCredits for a semester without courses), not
\* getSemesterCredits; calculateCGPA is sum(effectiveGPA * weight) / sum(weight)
\* over the semesters with a defined effective GPA and non-zero weight, null when
\* none qualifies; the scenario gives 286/38.
C1_CGPAWeightedByGradedCredits ==
  /\ calculateCGPA(semesters) =
       SemesterWeightedAverage(semesters,
         [i \in 1..Len(semesters) |-> GradedCredits(semesters[i])])
  /\ calculateCGPA(ScenarioSemesters) = Rat(286, 38)

\* C1 witness: a partially graded semester next to a manual-entry semester that counts
C1_Witness ==
  /\ \E i \in 1..Len(semesters) : PartiallyGraded(semesters[i])
  /\ \E i \in 1..Len(semesters) :
       /\ getSemesterGPA(semesters[i]).isManual
       /\ GradedCredits(semesters[i]) # Zero
  /\ ~IsNull(calculateCGPA(semesters))

\* the course list of the specification's scenario: (4, 9), (3, 8), (0, 10)
ScenarioCourses ==
  << Course(Num(4), Num(9), NULL, "A"), Course(Num(3), Num(8), NULL, "B"),
     Course(Num(0), Num(10), NULL, "A+/O") >>

\* C2: calculateGPA of every course list is sum(gradePoint * credits) / sum(credits)
\* over exactly the courses with a gradePoint and credits > 0, and null (not 0)
\* when no course qualifies; (4,9),(3,8),(0,10) gives 60/7.
C2_GPAIsWeightedAverage ==
  /\ \A i \in 1..Len(semesters) :
       /\ calculateGPA(semesters[i].courses) = WeightedAverage(semesters[i].courses)
       /\ Qualifying(semesters[i].courses) = {}
            => IsNull(calculateGPA(semesters[i].courses))
  /\ calculateGPA(ScenarioCourses) = Rat(60, 7)

\* C2 witness: a course list in which one course qualifies and another does not
C2_Witness ==
  \E i \in 1..Len(semesters) :
    /\ Qualifying(semesters[i].courses) # {}
    /\ Qualifying(semesters[i].courses) # 1..Len(semesters[i].courses)
    /\ ~IsNull(calculateGPA(semesters[i].courses))

\* courses that must not affect any GPA: credits = 0, or no gradePoint
NeutralCourses ==
  { Course(Num(0), Num(10), NULL, "A+/O"),
    Course(Num(0), NULL, NULL, ""),
    Course(Num(3), NULL, Num(85), "") }

\* adding the neutral course c to semester i changes neither the semester's
\* effective GPA nor the session's CGPA
NeutralAddKeepsGPA(i, c) ==
  LET added == withCourseAdded(semesters, semesters[i].id, c)
  IN  /\ getSemesterGPA(added[i]).gpa = getSemesterGPA(semesters[i]).gpa
      /\ calculateCGPA(added) = calculateCGPA(semesters)

\* C3 as claimed: for every semester of the session, manual-entry semesters with an
\* empty course list included, adding a course with credits = 0 or without a
\* gradePoint leaves getSemesterGPA of the semester and calculateCGPA unchanged.
C3_NeutralCourseNeverAffectsGPA ==
  \A i \in 1..Len(semesters) : \A c \in NeutralCourses : NeutralAddKeepsGPA(i, c)

\* C3 as amended: the same, for every semester that already has a course or that
\* has no manualGPA (the first course added to a manual-entry semester switches it
\* from its manual GPA to the course-derived one).
C3_NeutralCourseKeepsCourseDerivedGPA ==
  \A i \in 1..Len(semesters) : \A c \in NeutralCourses :
    (Len(semesters[i].courses) > 0 \/ IsNull(semesters[i].manualGPA))
      => NeutralAddKeepsGPA(i, c)

\* C3 witness: a semester with a defined GPA to which a neutral course was added last
C3_Witness ==
  \E i \in 1..Len(semesters) :
    LET cs == semesters[i].courses
    IN  /\ Len(cs) >= 2
        /\ cs[Len(cs)] \in NeutralCourses
        /\ ~IsNull(getSemesterGPA(semesters[i]).gpa)
        /\ ~IsNull(calculateCGPA(semesters))

\* manual values tried in place of a semester's own
ManualValues == {NULL, Num(0), Num(7), Num(18)}

\* C4: with a non-empty course list, getSemesterGPA, getSemesterCredits and
\* calculateCGPA do not change when manualGPA / manualCredits change, and isManual
\* is false; with an empty course list getSemesterGPA is {manualGPA, true} when
\* manualGPA is set and {null, false} otherwise, and getSemesterCredits is
\* manualCredits when set and 0 otherwise.
C4_ManualOnlyWhenNoCourses ==
  \A i \in 1..Len(semesters) :
    IF Len(semesters[i].courses) > 0
      THEN LET s    == semesters[i]
               gpa  == getSemesterGPA(s)
               cgpa == calculateCGPA(semesters)
           IN  /\ ~gpa.isManual
               /\ \A mg \in {NULL, Num(7)}, mc \in {NULL, Num(18)} :
                    LET changed == [s EXCEPT !.manualGPA = mg, !.manualCredits = mc]
                    IN  /\ getSemesterGPA(changed) = gpa
                        /\ getSemesterCredits(changed) = getSemesterCredits(s)
                        /\ calculateCGPA([semesters EXCEPT ![i] = changed]) = cgpa
    ELSE \A mg \in ManualValues, mc \in ManualValues :
           LET changed == [semesters[i] EXCEPT !.manualGPA = mg, !.manualCredits = mc]
           IN  /\ getSemesterGPA(changed) =
                    IF IsNull(mg) THEN [gpa |-> NULL, isManual |-> FALSE]
                    ELSE [gpa |-> mg, isManual |-> TRUE]
               /\ getSemesterCredits(changed) = IF IsNull(mc) THEN Zero ELSE mc

\* C4 witness: a semester that has courses and also carries manual values
C4_Witness ==
  \E i \in 1..Len(semesters) :
    /\ Len(semesters[i].courses) > 0
    /\ ~IsNull(semesters[i].manualGPA)
    /\ ~IsNull(semesters[i].manualCredits)
    /\ ~IsNull(calculateGPA(semesters[i].courses))


\* targets and remaining credits the panels accept: 0 < target <= scale, credits > 0
TargetValues == {Num(2), Rat(7, 2), Num(8), Num(10)}
Targets(scl) == {t \in TargetValues : RLe(t, Num(scl))}
RemainingCreditValues == {Num(1), Num(20)}

Sorted == SortByOrder(semesters, Len(semesters))

\* C5 as claimed: an undefined GPA / CGPA is never reported as 0 (the report of a
\* GPA that is exactly 0): not by getSemesterComparison (GPA), getCGPATimeline
\* (Semester GPA, CGPA), calculateTargetGPA (currentCGPA) or calculateStatistics
\* (highest / lowest semester GPA).
C5_UndefinedNeverReportedAsZero ==
  /\ \A p \in 1..Len(Sorted) :
       IsNull(getSemesterGPA(Sorted[p]).gpa)
         => /\ getSemesterComparison(Session)[p].GPA # Zero
            /\ getCGPATimeline(Session)[p].SemesterGPA # Zero
  /\ IsNull(calculateCGPA(semesters))
       => /\ \A t \in Targets(scale), r \in RemainingCreditValues :
               calculateTargetGPA(Session, t, r).currentCGPA # Zero
          /\ \A p \in 1..Len(Sorted) : getCGPATimeline(Session)[p].CGPA # Zero
  /\ (\A i \in 1..Len(semesters) : IsNull(getSemesterGPA(semesters[i]).gpa))
       => /\ calculateStatistics(Session).highestSemesterGPA # Zero
          /\ calculateStatistics(Session).lowestSemesterGPA # Zero

\* the scenario of the specification: CGPA 7.5 over 60 credits, on scale 10
ScenarioSession ==
  [semesters |-> << Semester(0, 0, << >>, Rat(15, 2), Num(60)) >>,
   metadata |-> [scale |-> 10]]

\* the closed form of the required GPA
RequiredGPA(targetCGPA, currentCGPA, creditsCompleted, creditsRemaining) ==
  RDiv(RSub(RMul(targetCGPA, RAdd(creditsCompleted, creditsRemaining)),
            RMul(currentCGPA, creditsCompleted)),
       creditsRemaining)

\* C6: for every target and creditsRemaining > 0, calculateTargetGPA computes
\* requiredGPA = (target * (creditsCompleted + creditsRemaining)
\*                - currentCGPA * creditsCompleted) / creditsRemaining
\* with currentCGPA = calculateCGPA or 0 when null and creditsCompleted the sum of
\* getSemesterCredits, and feasible is exactly 0 <= requiredGPA <= scale; the
\* scenario (7.5, 60, 8.0, 20) gives 9.5, feasible on scale 10.
C6_RequiredGPAClosedForm ==
  /\ LET cgpa == calculateCGPA(semesters)
         currentCGPA == IF IsNull(cgpa) THEN Zero ELSE cgpa
         creditsCompleted ==
           SumOver([i \in 1..Len(semesters) |-> getSemesterCredits(semesters[i])],
                   1..Len(semesters))
     IN  \A t \in Targets(scale), r \in RemainingCreditValues :
           LET required == RequiredGPA(t, currentCGPA, creditsCompleted, r)
               res == calculateTargetGPA(Session, t, r)
           IN  /\ targetGPALocals(Session, t, r).requiredGPA = required
               /\ res.creditsCompleted = creditsCompleted
               /\ res.feasible <=> (RLe(Zero, required) /\ RLe(required, Num(scale)))
  /\ targetGPALocals(ScenarioSession, Num(8), Num(20)).requiredGPA = Rat(19, 2)
  /\ calculateTargetGPA(ScenarioSession, Num(8), Num(20)).feasible

\* C6 witness: a session with a CGPA and ungraded credits, for which one target is
\* feasible and another is not
C6_Witness ==
  /\ ~IsNull(calculateCGPA(semesters))
  /\ \E i \in 1..Len(semesters) : PartiallyGraded(semesters[i])
  /\ \E t \in Targets(scale), r \in RemainingCreditValues :
       calculateTargetGPA(Session, t, r).feasible
  /\ \E t \in Targets(scale), r \in RemainingCreditValues :
       ~calculateTargetGPA(Session, t, r).feasible

\* C7 as claimed: appending a semester whose effective credits are creditsRemaining
\* and whose GPA is the unrounded requiredGPA makes calculateCGPA of the extended
\* session equal to targetCGPA, for every session (sessions with ungraded courses
\* that have credits included).
C7_RequiredGPAHitsTarget ==
  \A t \in Targets(scale), r \in RemainingCreditValues :
    LET required == targetGPALocals(Session, t, r).requiredGPA
        extended == Append(semesters,
                           Semester(FreshId, Len(semesters), << >>, required, r))
    IN  calculateCGPA(extended) = t

\* the template of a scale
TemplateOfScale(scl) == IF scl = 10 THEN BIT_MESRA_10_POINT ELSE STANDARD_4_POINT

HasUngraded(semester) ==
  \E k \in 1..Len(semester.courses) : IsNull(semester.courses[k].gradePoint)

UngradedIdx(courses) == {k \in 1..Len(courses) : IsNull(courses[k].gradePoint)}
GradedIdx(courses) == {k \in 1..Len(courses) : ~IsNull(courses[k].gradePoint)}

UngradedCredits(courses) ==
  SumOver([k \in UngradedIdx(courses) |-> courses[k].credits], UngradedIdx(courses))

Reaching(T, gp) ==
  {m \in 1..Len(T.mappings) : RGe(T.mappings[m].gradePoint, gp)}

\* the recommendation names the mapping of T with the smallest minMarks among those
\* whose gradePoint >= gp
NamesLowestReaching(rec, T, gp) ==
  \E m \in Reaching(T, gp) :
    /\ \A o \in Reaching(T, gp) : T.mappings[m].minMarks <= T.mappings[o].minMarks
    /\ rec.marksNeeded = T.mappings[m].minMarks
    /\ rec.gradeNeeded = T.mappings[m].letterGrade

\* C9 as claimed: for every ungraded course and every requiredAvgGP that does not
\* exceed the top mapping's gradePoint, the recommendation names the mapping of the
\* scale's template with the smallest minMarks among those whose gradePoint >=
\* requiredAvgGP.
C9_RecommendationIsLowestReachingMapping ==
  \A i \in 1..Len(semesters) : \A t \in Targets(scale) :
    LET res == calculateIntraSemesterTarget(semesters[i], t, scale)
        T   == TemplateOfScale(scale)
    IN  (HasUngraded(semesters[i])
           /\ RLe(res.avgGPANeeded, T.mappings[1].gradePoint))
          => \A k \in 1..Len(res.recommendations) :
               NamesLowestReaching(res.recommendations[k], T, res.avgGPANeeded)

\* the same on the 10-point scale alone, where the solver has a template: holds
RecommendationIsLowestReachingOnScale10 ==
  scale = 10 => C9_RecommendationIsLowestReachingMapping

\* C10 as claimed: on either scale the recommendation's marksNeeded and gradeNeeded
\* come from the mappings of that scale's template (or are 100 and the top letter
\* with "+"): from the 4-point template when scale = 4, as from the 10-point
\* template when scale = 10.
C10_RecommendationFromScaleTemplate ==
  \A i \in 1..Len(semesters) : \A t \in Targets(scale) :
    LET res == calculateIntraSemesterTarget(semesters[i], t, scale)
        T   == TemplateOfScale(scale)
    IN  \A k \in 1..Len(res.recommendations) :
          \/ \E m \in 1..Len(T.mappings) :
               /\ res.recommendations[k].marksNeeded = T.mappings[m].minMarks
               /\ res.recommendations[k].gradeNeeded = T.mappings[m].letterGrade
          \/ /\ res.recommendations[k].marksNeeded = 100
             /\ res.recommendations[k].gradeNeeded = T.mappings[1].letterGrade \o "+"

\* requiredAvgGP exceeds the gradePoint of the top mapping of the scale's template
ExceedsTop(res, scl) ==
  /\ ~IsNull(res.avgGPANeeded)
  /\ RGt(res.avgGPANeeded, TemplateOfScale(scl).mappings[1].gradePoint)

\* marksNeeded = 100, gradeNeeded = the top letter with "+", and the course-level
\* flag is false exactly when the marks needed exceed 100
TopOverflowRecommendation(rec, scl) ==
  /\ rec.marksNeeded = 100
  /\ rec.gradeNeeded = TemplateOfScale(scl).mappings[1].letterGrade \o "+"
  /\ rec.feasible <=> (rec.marksNeeded <= 100)

\* C11 as claimed: when requiredAvgGP exceeds the gradePoint of the top mapping of
\* the scale's template, every recommendation of calculateIntraSemesterTarget has
\* marksNeeded = 100 and gradeNeeded = the top letter grade suffixed with "+", and
\* its course-level feasible flag is false whenever marksNeeded exceeds 100.
C11_TopOverflowRecommendation ==
  \A i \in 1..Len(semesters) : \A t \in Targets(scale) :
    LET res == calculateIntraSemesterTarget(semesters[i], t, scale)
    IN  (HasUngraded(semesters[i]) /\ ExceedsTop(res, scale))
          => \A k \in 1..Len(res.recommendations) :
               TopOverflowRecommendation(res.recommendations[k], scale)

\* the same on the 10-point scale alone, where the solver has a template: holds
TopOverflowRecommendationOnScale10 ==
  scale = 10 => C11_TopOverflowRecommendation

\* a state in which the 10-point case of C11 happens
TopOverflowOnScale10Reached ==
  /\ scale = 10
  /\ \E i \in 1..Len(semesters) : \E t \in Targets(scale) :
       /\ HasUngraded(semesters[i])
       /\ ExceedsTop(calculateIntraSemesterTarget(semesters[i], t, scale), scale)

\* the semester with the credits of its ungraded courses set to 0
ZeroUngradedCredits(semester) ==
  [semester EXCEPT !.courses =
     [k \in 1..Len(semester.courses) |->
        IF IsNull(semester.courses[k].gradePoint)
          THEN [semester.courses[k] EXCEPT !.credits = Zero]
        ELSE semester.courses[k]]]

\* a defined number: neither null nor the NaN / infinity of a division by 0
IsFinite(x) == ~IsNull(x) /\ x.d > 0

Rearranged(session, perm) ==
  [session EXCEPT !.semesters =
     [k \in 1..Len(session.semesters) |-> session.semesters[perm[k]]]]

\* C13 as claimed: trendDirection of calculateStatistics follows the `order` field,
\* not the list position: it is the same for every rearrangement of
\* session.semesters that keeps each semester's `order` value.
C13_TrendFollowsOrderField ==
  \A perm \in Permutations(1..Len(semesters)) :
    calculateStatistics(Rearranged(Session, perm)).trendDirection
      = calculateStatistics(Session).trendDirection

\* the trend of a sequence of GPAs as the specification words it
TrendOfSequence(gpas) ==
  LET n      == Len(gpas)
      k      == IF n < 3 THEN n ELSE 3
      recent == [j \in 1..k |-> gpas[n - k + j]]
      first  == 1..(k \div 2)
      second == ((k \div 2) + 1)..k
      meanFirst  == RDiv(SumOver(recent, first), Num(Cardinality(first)))
      meanSecond == RDiv(SumOver(recent, second), Num(Cardinality(second)))
  IN  IF n < 2 THEN "unknown"
      ELSE IF RGt(meanSecond, RAdd(meanFirst, Rat(2, 10))) THEN "improving"
      ELSE IF RLt(meanSecond, RSub(meanFirst, Rat(2, 10))) THEN "declining"
      ELSE "stable"

\* C14: for the sequence of defined effective semester GPAs of a session,
\* trendDirection is unknown iff the sequence has fewer than 2 entries; otherwise
\* the last min(3, n) entries are split into the first floor(k/2) and the
\* remainder, and the result is improving if mean(second) > mean(first) + 0.2,
\* declining if mean(second) < mean(first) - 0.2, else stable, the 0.2 being the
\* same on either scale; GPAs 6.0, 7.0, 8.5 give improving.
C14_TrendDirection ==
  LET gpas  == SemesterGPAs(semesters, 1)
      trend == calculateStatistics(Session).trendDirection
  IN  /\ trend = TrendOfSequence(gpas)
      /\ (trend = "unknown") <=> (Len(gpas) < 2)
      /\ gpas = << Num(6), Num(7), Rat(17, 2) >> => trend = "improving"

\* C14 witness: on the 4-point scale four semesters, one of them without a GPA,
\* give the three GPAs 3.3, 3.4, 3.5, split into 3.3 and 3.4, 3.5 (mean 3.45, a
\* step of 0.15, more than 2% of the scale and less than 0.2): stable
C14_Witness ==
  /\ scale = 4
  /\ Len(semesters) = 4
  /\ SemesterGPAs(semesters, 1) = << Rat(33, 10), Rat(17, 5), Rat(7, 2) >>
  /\ calculateStatistics(Session).trendDirection = "stable"

\* the scenario of the specification is a session of the history: 6.0, 7.0, 8.5
TrendScenarioReached ==
  /\ scale = 10
  /\ SemesterGPAs(semesters, 1) = << Num(6), Num(7), Rat(17, 2) >>
  /\ calculateStatistics(Session).trendDirection = "improving"

\* the tier of a required GPA, from the scale maximum alone
TierOf(required, scaleMax) ==
  IF RGt(required, scaleMax) THEN "not achievable"
  ELSE IF RLt(required, Zero) THEN "already achieved"
  ELSE IF RGe(required, RMul(scaleMax, Rat(90, 100))) THEN "very challenging"
  ELSE IF RGe(required, RMul(scaleMax, Rat(70, 100))) THEN "achievable with effort"
  ELSE "easily achievable"

\* the tier a message of either solver announces
TierOfMessage(message) ==
  CASE message \in {"Not achievable!", "Target not achievable!"} -> "not achievable"
    [] message \in {"Target already achieved!", "Target already exceeded!"}
         -> "already achieved"
    [] message = "Very challenging!" -> "very challenging"
    [] message \in {"Achievable with effort!", "Achievable with good performance!"}
         -> "achievable with effort"
    [] message = "Easily achievable!" -> "easily achievable"
    [] OTHER -> "none"

\* C15: both solvers announce the tier of their required GPA by the same
\* breakpoints: above the scale maximum not achievable, below 0 already achieved /
\* exceeded, else from 90% of the scale maximum very challenging, from 70%
\* achievable with effort, lower easily achievable; every required GPA gets exactly
\* this one tier.
C15_MessageTiers ==
  \A t \in Targets(scale) :
    /\ \A r \in RemainingCreditValues :
         TierOfMessage(calculateTargetGPA(Session, t, r).message)
           = TierOf(targetGPALocals(Session, t, r).requiredGPA, Num(scale))
    /\ \A i \in 1..Len(semesters) :
         HasUngraded(semesters[i])
           => LET res == calculateIntraSemesterTarget(semesters[i], t, scale)
              IN  TierOfMessage(res.message) = TierOf(res.avgGPANeeded, Num(scale))

\* C15 witness: on the 4-point scale a required GPA of 3.5 (under 3.6, from 2.8) is
\* announced as achievable with effort by both solvers
C15_Witness ==
  /\ scale = 4
  /\ \E r \in RemainingCreditValues :
       /\ targetGPALocals(Session, Rat(7, 2), r).requiredGPA = Rat(7, 2)
       /\ calculateTargetGPA(Session, Rat(7, 2), r).message = "Achievable with effort!"
  /\ \E i \in 1..Len(semesters) :
       /\ HasUngraded(semesters[i])
       /\ calculateIntraSemesterTarget(semesters[i], Rat(7, 2), scale).avgGPANeeded
            = Rat(7, 2)
       /\ calculateIntraSemesterTarget(semesters[i], Rat(7, 2), scale).message
            = "Achievable with good performance!"

\* every tier is announced by both solvers somewhere
TierAnnounced(tier) ==
  /\ \E t \in Targets(scale), r \in RemainingCreditValues :
       TierOfMessage(calculateTargetGPA(Session, t, r).message) = tier
  /\ \E i \in 1..Len(semesters), t \in Targets(scale) :
       /\ HasUngraded(semesters[i])
       /\ TierOfMessage(calculateIntraSemesterTarget(semesters[i], t, scale).message)
            = tier

\* the two built-in templates
BuiltinTemplates == {BIT_MESRA_10_POINT, STANDARD_4_POINT}

\* the marks the form has submitted into the session
SubmittedMarks ==
  UNION {{semesters[i].courses[k].marks : k \in 1..Len(semesters[i].courses)} :
           i \in 1..Len(semesters)}
  \ {NULL}

\* the mappings of template T whose range holds marks m
Containing(T, m) ==
  {k \in 1..Len(T.mappings) :
     RGe(m, Num(T.mappings[k].minMarks)) /\ RLe(m, Num(T.mappings[k].maxMarks))}

\* the first mapping in declaration order among a non-empty set of mappings
FirstOf(ks) == CHOOSE k \in ks : \A o \in ks : k <= o

\* C16 as claimed: both built-in templates cover [0, 100] without gaps: every marks
\* value m with 0 <= m <= 100, whole or fractional, lies in the range of a mapping,
\* and convertMarksToGrade returns the letter of the first such mapping in
\* declaration order; 91 maps to 'A+/O' and 90 to 'A' in the 10-point template.
C16_TemplatesCoverAllMarks ==
  /\ \A T \in BuiltinTemplates : \A m \in SubmittedMarks :
       (RLe(Zero, m) /\ RLe(m, Num(100)))
         => /\ Containing(T, m) # {}
            /\ convertMarksToGrade(m, T)
                 = T.mappings[FirstOf(Containing(T, m) \cup {Len(T.mappings)})].letterGrade
  /\ convertMarksToGrade(Num(91), BIT_MESRA_10_POINT) = "A+/O"
  /\ convertMarksToGrade(Num(90), BIT_MESRA_10_POINT) = "A"

\* the same for whole marks alone: holds
WholeMarksAreCovered ==
  \A T \in BuiltinTemplates : \A m \in SubmittedMarks :
    (m.d = 1 /\ RLe(Zero, m) /\ RLe(m, Num(100)))
      => /\ Containing(T, m) # {}
         /\ convertMarksToGrade(m, T) = T.mappings[FirstOf(Containing(T, m))].letterGrade

\* C17: for both built-in templates T and every marks value m in the range of one
\* of T's mappings, convertGradeToPoints(convertMarksToGrade(m, T), T.scale, T) is
\* the gradePoint of the mapping whose range holds m, and convertMarksToPoints
\* returns that mapping's letter and gradePoint.
C17_MarksRoundTrip ==
  \A T \in BuiltinTemplates : \A m \in SubmittedMarks :
    Containing(T, m) # {}
      => LET bucket == T.mappings[FirstOf(Containing(T, m))]
         IN  /\ Cardinality(Containing(T, m)) = 1
             /\ convertGradeToPoints(convertMarksToGrade(m, T), T.scale, T)
                  = bucket.gradePoint
             /\ convertMarksToPoints(m, T)
                  = [letter |-> bucket.letterGrade, points |-> bucket.gradePoint]

\* C17 witness: on scale 10 the form has stored marks 90 with 'A' and 9, and
\* fractional marks 85.5 that lie inside a mapping's range
C17_Witness ==
  /\ scale = 10
  /\ \E k \in 1..Len(semesters[1].courses) :
       semesters[1].courses[k] = Course(Num(3), Num(9), Num(90), "A")
  /\ \E k \in 1..Len(semesters[1].courses) :
       semesters[1].courses[k] = Course(Num(3), Num(9), Rat(171, 2), "A")

\* letters handed to convertGradeToPoints: those of the templates and the tables,
\* lower-case and padded spellings, and letters known to neither
LetterInputs ==
  gradeOptions(10) \cup gradeOptions(4)
    \cup {"O", "D-", "a", " a ", "a+/o", "b+", "z", "Z", "N/A", ""}

\* the built-in letter table selected by scale; NULL when it lacks the letter
BuiltinTable(scl, letter) ==
  IF scl = 10 THEN LETTER_TO_POINTS_10(letter) ELSE LETTER_TO_POINTS_4(letter)

\* the mappings of T whose letter is the given one, case-insensitively
MatchingLetter(T, letter) ==
  {k \in 1..Len(T.mappings) :
     toUpperCase(T.mappings[k].letterGrade) = trim(toUpperCase(letter))}

\* what C18 states of one call
GradeToPointsAsStated(letter, scl, T) ==
  LET points == convertGradeToPoints(letter, scl, T)
      table  == BuiltinTable(scl, trim(toUpperCase(letter)))
  IN  /\ ~IsNull(points)
      /\ IF MatchingLetter(T, letter) # {}
           THEN points = T.mappings[FirstOf(MatchingLetter(T, letter))].gradePoint
         ELSE IF ~IsNull(table) THEN points = table
         ELSE points = Zero

\* C18: convertGradeToPoints never fails: with a template that has the letter
\* (case-insensitively) it returns that mapping's gradePoint; otherwise the value
\* of the built-in table selected by scale (10-point for scale 10, 4-point
\* otherwise); a letter known to neither yields 0. The letters are those stored in
\* the session's courses and LetterInputs, on either scale, with either template
\* or none.
C18_GradeToPointsNeverFails ==
  \A letter \in LetterInputs \cup GradesIn(semesters) :
    \A scl \in {4, 10} : \A T \in BuiltinTemplates \cup {NoTemplate} :
      GradeToPointsAsStated(letter, scl, T)

\* C18 witness: the form has stored a letter grade with the points of the 4-point
\* table (no template on scale 4), and the same letter gives 9 with the 10-point
\* template
C18_Witness ==
  /\ scale = 4
  /\ \E k \in 1..Len(semesters[1].courses) :
       semesters[1].courses[k] = Course(Num(3), Rat(33, 10), NULL, "B+")
  /\ convertGradeToPoints("a", 4, BIT_MESRA_10_POINT) = Num(9)
  /\ convertGradeToPoints("D-", 4, STANDARD_4_POINT) = Rat(7, 10)
  /\ convertGradeToPoints("Z", 10, BIT_MESRA_10_POINT) = Zero

\* the GPAs of the session as the engine's numbers: its CGPA and the effective GPA
\* of each semester
SessionGPAs ==
  {DoubleOf(g) :
     g \in ({calculateCGPA(semesters)}
              \cup {getSemesterGPA(semesters[i]).gpa : i \in 1..Len(semesters)})
            \ {NULL}}

\* 10 -> 4 -> 10 by the linear method
LinearRoundTrip(v) ==
  convertScale(convertScale(v, 10, 4, "linear").convertedValue,
               4, 10, "linear").convertedValue

\* fromScale = toScale returns the value unchanged, for either method
SameScaleIsIdentity(v) ==
  \A scl \in {4, 10} : \A method \in {"linear", "official"} :
    convertScale(v, scl, scl, method).convertedValue = v

\* x >= y for two natural numbers
BigGe(x, y) ==
  IF Len(x) # Len(y) THEN Len(x) > Len(y) ELSE BigGeLoop(x, y, Len(x))

\* |x - y| is at most one unit in the last place of y, i.e. 2^(y.e)
WithinOneUlp(x, y) ==
  IF y = DZero \/ x = DZero THEN x = y
  ELSE IF x.e = y.e
    THEN x.m = y.m \/ BigAdd(x.m, <<1>>) = y.m \/ x.m = BigAdd(y.m, <<1>>)
  ELSE IF x.e = y.e - 1
    THEN BigGe(BigAdd(x.m, <<2>>), BigMulSmall(y.m, 2))
  ELSE IF x.e = y.e + 1
    THEN BigGe(BigAdd(y.m, <<1>>), BigMulSmall(x.m, 2))
  ELSE FALSE

\* C19 as claimed: the linear conversion round-trips: converting v from 10 to 4
\* and the result from 4 to 10 gives v again, each step being
\* value / fromScale * toScale, and with fromScale = toScale the value is returned
\* unchanged for either method.
C19_LinearRoundTripExact ==
  \A v \in SessionGPAs :
    /\ convertScale(v, 10, 4, "linear").convertedValue
         = DMulSmall(DDivSmall(v, 10), 4)
    /\ LinearRoundTrip(v) = v
    /\ SameScaleIsIdentity(v)

\* C19, amended: the round trip gives v up to the rounding of the two inexact
\* steps (/ 10 and * 10): the result differs from v by at most one unit in the
\* last place of v; with fromScale = toScale the value is returned unchanged for
\* either method.
C19_LinearRoundTripWithinRounding ==
  \A v \in SessionGPAs :
    /\ convertScale(v, 10, 4, "linear").convertedValue
         = DMulSmall(DDivSmall(v, 10), 4)
    /\ WithinOneUlp(LinearRoundTrip(v), v)
    /\ SameScaleIsIdentity(v)

\* C19 witness: a session whose CGPA 18/11 = 1.6363636363636365 comes back from
\* the round trip as the number one unit in the last place away, next to a GPA (9)
\* that comes back unchanged
C19_Witness ==
  /\ calculateCGPA(semesters) = Rat(18, 11)
  /\ LinearRoundTrip(DoubleOf(Rat(18, 11))) # DoubleOf(Rat(18, 11))
  /\ WithinOneUlp(LinearRoundTrip(DoubleOf(Rat(18, 11))), DoubleOf(Rat(18, 11)))
  /\ DoubleOf(Num(9)) \in SessionGPAs
  /\ LinearRoundTrip(DoubleOf(Num(9))) = DoubleOf(Num(9))

\* semesters of 0 effective credits: no courses and no manual credits (with or
\* without a manual GPA), manualCredits = 0, or only zero-credit courses (graded or
\* not, next to manual values or not)
ZeroCreditSemesters ==
  LET id    == FreshId
      order == Len(semesters)
      gradedNoCredit   == Course(Zero, Num(10), NULL, "A+/O")
      ungradedNoCredit == Course(Zero, NULL, Num(85), "")
  IN  { Semester(id, order, << >>, NULL, NULL),
        Semester(id, order, << >>, Num(7), NULL),
        Semester(id, order, << >>, NULL, Zero),
        Semester(id, order, << >>, Num(7), Zero),
        Semester(id, order, << gradedNoCredit >>, NULL, NULL),
        Semester(id, order, << ungradedNoCredit, gradedNoCredit >>, NULL, NULL),
        Semester(id, order, << gradedNoCredit >>, Num(7), Num(18)) }

\* C20: for every session, calculateCGPA of its semesters equals calculateCGPA of
\* the same list with one extra semester of 0 effective credits appended.
C20_ZeroCreditSemesterIsNeutral ==
  \A extra \in ZeroCreditSemesters :
    /\ getSemesterCredits(extra) = Zero
    /\ calculateCGPA(Append(semesters, extra)) = calculateCGPA(semesters)

\* C20 witness: a session of a graded course and a manual-entry semester, CGPA
\* 81/11, which keeps that CGPA with a manual GPA of 7 over 0 credits appended
C20_Witness ==
  /\ Len(semesters) = 2
  /\ calculateCGPA(semesters) = Rat(81, 11)
  /\ calculateCGPA(Append(semesters, Semester(FreshId, 2, << >>, Num(7), Zero)))
       = Rat(81, 11)

\* the semesters of the session as one course list: a course per semester, with
\* the semester's manual credits and manual GPA (a course without a gradePoint
\* for a semester without a GPA)
HistoryAsCourses ==
  [j \in 1..Len(semesters) |->
     Course(semesters[j].manualCredits, semesters[j].manualGPA, NULL, "")]

\* arr rearranged by perm
Permuted(arr, perm) == [k \in 1..Len(arr) |-> arr[perm[k]]]

\* |x - y| is at most k units in the last place of y, for two binary64 numbers
WithinUlps(x, y, k) ==
  IF x = DZero \/ y = DZero THEN x = y
  ELSE LET e0  == IF x.e < y.e THEN x.e ELSE y.e
           X   == BigShiftLeft(x.m, x.e - e0)
           Y   == BigShiftLeft(y.m, y.e - e0)
           tol == BigShiftLeft(<<k>>, y.e - e0)
       IN  BigGe(BigAdd(Y, tol), X) /\ BigGe(BigAdd(X, tol), Y)

\* the binary64 result r is the weighted average exact (a rational or NULL) up to
\* the rounding of n additions
RoundedAverage(r, exact, n) ==
  IF IsNull(exact) THEN r = NULL
  ELSE r # NULL /\ WithinUlps(r, DoubleOf(exact), n)

\* C21 as claimed: calculateGPA returns the same value for every permutation of its
\* course list, and calculateCGPA the same value for every permutation of the
\* semester list and of the courses inside a semester, in the arithmetic of the
\* language's numbers.
C21_OrderIndependent ==
  \A perm \in Permutations(1..Len(semesters)) :
    /\ calculateGPA_binary64(Permuted(HistoryAsCourses, perm))
         = calculateGPA_binary64(HistoryAsCourses)
    /\ calculateCGPA_binary64(Permuted(semesters, perm))
         = calculateCGPA_binary64(semesters)
    /\ calculateCGPA_binary64(<< Semester(0, 0, Permuted(HistoryAsCourses, perm),
                                          NULL, NULL) >>)
         = calculateCGPA_binary64(<< Semester(0, 0, HistoryAsCourses, NULL, NULL) >>)

\* the exchanges of two neighbouring positions of a list of n entries, as
\* permutations of 1..n; every permutation is a sequence of such exchanges
Exchanges(n) ==
  {[k \in 1..n |-> IF k = j THEN j + 1 ELSE IF k = j + 1 THEN j ELSE k] :
     j \in 1..(n - 1)}

\* C21, amended: the weighted averages are order-independent as exact values:
\* calculateGPA and calculateCGPA in exact arithmetic return the same value when
\* two neighbouring entries of the course list or of the semester list are
\* exchanged, hence for every permutation; the binary64 result of any one ordering
\* is that value up to the rounding of the additions (at most one unit in the last
\* place per addend), so two orderings agree up to rounding but need not be equal.
C21_OrderIndependentUpToRounding ==
  /\ \A perm \in Exchanges(Len(semesters)) :
       /\ calculateGPA(Permuted(HistoryAsCourses, perm)) = calculateGPA(HistoryAsCourses)
       /\ calculateCGPA(Permuted(semesters, perm)) = calculateCGPA(semesters)
       /\ calculateCGPA(<< Semester(0, 0, Permuted(HistoryAsCourses, perm), NULL, NULL) >>)
            = calculateGPA(HistoryAsCourses)
  /\ RoundedAverage(calculateGPA_binary64(HistoryAsCourses),
                    WeightedAverage(HistoryAsCourses), Len(semesters))
  /\ RoundedAverage(calculateCGPA_binary64(semesters),
                    SemesterWeightedAverage(semesters,
                      [i \in 1..Len(semesters) |-> GradedCredits(semesters[i])]),
                    Len(semesters))

\* C21 witness: on the 4-point scale the semesters 3.3, 3.3, 3.3, 3.4 of 18 credits
\* have the exact CGPA 133/40 = 3.325 in either order, and in binary64 two values
\* one unit in the last place apart, this order and the reverse order
C21_Witness ==
  /\ scale = 4
  /\ SemesterGPAs(semesters, 1) = << Rat(33, 10), Rat(33, 10), Rat(33, 10), Rat(17, 5) >>
  /\ calculateCGPA(semesters) = Rat(133, 40)
  /\ calculateCGPA(Permuted(semesters, <<4, 3, 2, 1>>)) = Rat(133, 40)
  /\ calculateCGPA_binary64(Permuted(semesters, <<4, 3, 2, 1>>))
       # calculateCGPA_binary64(semesters)
  /\ WithinUlps(calculateCGPA_binary64(Permuted(semesters, <<4, 3, 2, 1>>)),
                calculateCGPA_binary64(semesters), 1)

\* the semester of a list that carries an id
SemesterOfId(sems, id) == sems[CHOOSE i \in 1..Len(sems) : sems[i].id = id]

\* a number as a chart point carries it: rounded to two decimals, 0 when undefined
Displayed(x) == OrZero(roundForDisplay(x))

\* sum(gpa * credits) / sum(credits), by effective GPA and effective credits, over
\* the semesters among `upTo` with a defined GPA and non-zero credits, else null
RunningCGPA(upTo) ==
  LET Q == {k \in 1..Len(upTo) :
              /\ ~IsNull(getSemesterGPA(upTo[k]).gpa)
              /\ getSemesterCredits(upTo[k]) # Zero}
  IN  IF Q = {} THEN NULL
      ELSE RDiv(SumOver([k \in Q |-> RMul(getSemesterGPA(upTo[k]).gpa,
                                          getSemesterCredits(upTo[k]))], Q),
                SumOver([k \in Q |-> getSemesterCredits(upTo[k])], Q))

\* the timeline of a session as the specification words it
TimelineAsStated(session) ==
  LET sems   == session.semesters
      T      == getCGPATimeline(session)
      sem(p) == SemesterOfId(sems, T[p].id)
  IN  /\ Len(T) = Len(sems)
      /\ {T[p].id : p \in 1..Len(T)} = {sems[i].id : i \in 1..Len(sems)}
      /\ \A p \in 1..(Len(T) - 1) : sem(p).order <= sem(p + 1).order
      /\ \A p \in 1..Len(T) :
           /\ T[p].SemesterGPA = Displayed(getSemesterGPA(sem(p)).gpa)
           /\ T[p].CGPA = Displayed(RunningCGPA([q \in 1..p |-> sem(q)]))
           /\ T[p].value = T[p].CGPA

\* the list positions 1..n reversed and rotated: rearrangements of a list
Reorderings(n) ==
  {[k \in 1..n |-> n + 1 - k]} \cup {[k \in 1..n |-> ((k + r - 1) % n) + 1] : r \in 0..(n - 1)}

\* a course-based semester with an ungraded course (order 1) listed before a
\* manual-entry semester (order 0) and a semester without GPA (order 2)
TimelineScenario ==
  [semesters |-> << Semester(1, 1, << Course(Num(4), Num(9), NULL, "A"),
                                      Course(Num(3), NULL, Num(85), "") >>, NULL, NULL),
                    Semester(2, 2, << >>, NULL, Num(18)),
                    Semester(0, 0, << >>, Num(7), Num(18)) >>,
   metadata |-> [scale |-> 10]]

\* C22: getCGPATimeline returns one point per semester in ascending `order`,
\* whatever the list position; the point of the i-th semester in that order
\* carries (rounded for display, 0 when undefined) that semester's own effective
\* GPA and the running CGPA sum(effectiveGPA * effectiveCredits) /
\* sum(effectiveCredits) over the semesters up to and including i that have a
\* defined effective GPA and non-zero effective credits, manual-entry semesters
\* included.
C22_TimelineInOrder ==
  /\ \A perm \in Reorderings(Len(semesters)) :
       TimelineAsStated(Rearranged(Session, perm))
  /\ TimelineAsStated(TimelineScenario)

\* C22 witness: three manual-entry semesters 6.0, 7.0, 8.5 listed in reverse give
\* the points (6, 6), (7, 6.5), (8.5, 7.17) in ascending order
C22_Witness ==
  /\ SemesterGPAs(semesters, 1) = << Num(6), Num(7), Rat(17, 2) >>
  /\ Len(semesters) = 3
  /\ LET T == getCGPATimeline(Rearranged(Session, <<3, 2, 1>>))
     IN  /\ [p \in 1..3 |-> T[p].id] = [p \in 1..3 |-> semesters[p].id]
         /\ [p \in 1..3 |-> T[p].SemesterGPA] = << Num(6), Num(7), Rat(17, 2) >>
         /\ [p \in 1..3 |-> T[p].CGPA] = << Num(6), Rat(13, 2), Rat(717, 100) >>

\* the number of courses of the session whose grade is g
CoursesGraded(g) ==
  Cardinality({ik \in UNION {{<<i, k>> : k \in 1..Len(semesters[i].courses)} :
                               i \in 1..Len(semesters)} :
                 semesters[ik[1]].courses[ik[2]].grade = g})

\* the letters asked about: those of the session's courses, a letter no course
\* has, and the name of the synthetic bucket
LettersAsked == GradesIn(semesters) \cup {"B", "Manual Entry"}

\* a letter-to-count mapping gives every letter the number of courses graded so
\* (no entry for a letter without courses)
CountsCourses(distribution) ==
  \A g \in LettersAsked :
    IF CoursesGraded(g) = 0 THEN g \notin DOMAIN distribution
    ELSE g \in DOMAIN distribution /\ distribution[g] = CoursesGraded(g)

\* the points of a chart series as a letter-to-count mapping
AsMapping(points) ==
  [g \in {points[j].name : j \in 1..Len(points)} |->
     LET j == CHOOSE j \in 1..Len(points) : points[j].name = g IN points[j].value]

\* the sum of the counts of a letter-to-count mapping
RECURSIVE SumCountsOver(_, _)
SumCountsOver(distribution, letters) ==
  IF letters = {} THEN 0
  ELSE LET g == CHOOSE x \in letters : TRUE
       IN  distribution[g] + SumCountsOver(distribution, letters \ {g})

SumCounts(distribution) == SumCountsOver(distribution, DOMAIN distribution)

\* no course of the session has a grade, and a semester has a manual GPA
OnlyManualEntries ==
  /\ GradesIn(semesters) = {}
  /\ \E i \in 1..Len(semesters) : ~IsNull(semesters[i].manualGPA)

\* C23 as claimed: for every letter g, gradeDistribution[g] of calculateStatistics,
\* of calculateGradeDistribution and of getGradeDistribution is the number of
\* courses across all semesters whose grade is g; courses without a grade and
\* manual-entry semesters contribute nothing; the counts sum to at most
\* totalCourses.
C23_HistogramFromCourseGradesOnly ==
  LET stats == calculateStatistics(Session)
      chart == getGradeDistribution(Session)
  IN  /\ CountsCourses(stats.gradeDistribution)
      /\ CountsCourses(calculateGradeDistribution(semesters))
      /\ CountsCourses(AsMapping(chart))
      /\ SumCounts(stats.gradeDistribution) <= stats.totalCourses
      /\ SumCounts(AsMapping(chart)) <= stats.totalCourses

\* C23, amended: gradeDistribution of calculateStatistics and of
\* calculateGradeDistribution give every letter the number of courses graded so,
\* and their counts sum to at most totalCourses; getGradeDistribution gives the
\* same counts, one point per letter in descending count, except that for a
\* session without any course grade but with a manual GPA it returns the single
\* synthetic point 'Manual Entry' of value 1.
C23_HistogramWithManualEntryBucket ==
  LET stats == calculateStatistics(Session)
      chart == getGradeDistribution(Session)
  IN  /\ CountsCourses(stats.gradeDistribution)
      /\ CountsCourses(calculateGradeDistribution(semesters))
      /\ SumCounts(stats.gradeDistribution) <= stats.totalCourses
      /\ IF OnlyManualEntries
           THEN /\ Len(chart) = 1
                /\ chart[1].name = "Manual Entry"
                /\ chart[1].value = 1
         ELSE /\ CountsCourses(AsMapping(chart))
              /\ Len(chart) = Cardinality(GradesIn(semesters))
              /\ \A j \in 1..(Len(chart) - 1) : chart[j].value >= chart[j + 1].value
              /\ \A j \in 1..Len(chart) : chart[j].count = chart[j].value

\* C23 witness: an imported manual-entry semester (GPA 7, no course) gives an empty
\* gradeDistribution and the chart series 'Manual Entry'
C23_Witness ==
  /\ Len(semesters) = 1
  /\ semesters[1].manualGPA = Num(7)
  /\ Len(semesters[1].courses) = 0
  /\ DOMAIN calculateStatistics(Session).gradeDistribution = {}
  /\ getGradeDistribution(Session)
       = << [name |-> "Manual Entry", value |-> 1, count |-> 1] >>

\* a session with two courses of one grade, a course without a grade aside
GradeCountedTwice ==
  /\ \E g \in GradesIn(semesters) :
       /\ calculateStatistics(Session).gradeDistribution[g] = 2
       /\ getGradeDistribution(Session) = << [name |-> g, value |-> 2, count |-> 2] >>

\* a session whose course-based semesters are listed against their `order`, the
\* courses' grade points ascending
FrameScenario ==
  [semesters |-> << Semester(1, 1, << Course(Num(3), Num(0), Num(30), "F"),
                                      Course(Num(3), NULL, Num(85), ""),
                                      Course(Num(4), Num(9), NULL, "A") >>, NULL, NULL),
                    Semester(0, 0, << Course(Num(0), Num(10), NULL, "A+/O") >>,
                             Num(7), Num(18)) >>,
   metadata |-> [scale |-> 10]]

\* the sessions handed to the projectors: the session as listed, reversed and
\* rotated, and the scenario
SessionsHandedOver ==
  {Rearranged(Session, perm) : perm \in Reorderings(Len(semesters))}
    \cup {FrameScenario}

\* C24: no engine function mutates its input: after a call of a projector that
\* sorts (getCGPATimeline, getSemesterComparison, getTopCourses) the array
\* session.semesters holds the same semesters, with the same courses, in the same
\* order as before, and the call returns what the function returns.
C24_InputsUnchanged ==
  \A session \in SessionsHandedOver :
    LET heap       == HeapOf(session)
        timeline   == callGetCGPATimeline(heap)
        comparison == callGetSemesterComparison(heap)
        top        == callGetTopCourses(heap, 10)
    IN  /\ timeline.heap["session.semesters"] = session.semesters
        /\ comparison.heap["session.semesters"] = session.semesters
        /\ top.heap["session.semesters"] = session.semesters
        /\ timeline.returned = getCGPATimeline(session)
        /\ comparison.returned = getSemesterComparison(session)

\* C24 witness: a session listed against its `order` (8.5 of order 2 first): the
\* call sorts its copy, and the session's list is as it was
C24_Witness ==
  /\ Len(semesters) = 3
  /\ SemesterGPAs(semesters, 1) = << Num(6), Num(7), Rat(17, 2) >>
  /\ LET session == Rearranged(Session, <<3, 2, 1>>)
         call    == callGetCGPATimeline(HeapOf(session))
     IN  /\ call.heap["sortedSemesters"] = semesters
         /\ call.heap["sortedSemesters"] # session.semesters
         /\ call.heap["session.semesters"] = session.semesters
  /\ LET call == callGetTopCourses(HeapOf(FrameScenario), 10)
     IN  /\ [j \in 1..3 |-> call.returned[j].value] = << Num(10), Num(9), Num(0) >>
         /\ call.heap["session.semesters"] = FrameScenario.semesters

RMin(x, y) == IF RLe(x, y) THEN x ELSE y

\* the total of the component scores, each capped at its maximum: endsemMax 50,
\* midsemMax 25 and 100 - 50 - 25 for the internals
CappedTotal(components) ==
  RAdd(RAdd(RMin(components.endsem, Num(50)), RMin(components.midsem, Num(25))),
       RMin(components.internals, RSub(RSub(Num(100), Num(50)), Num(25))))

\* C25 as claimed: a course entered by components carries, and has mapped to its
\* grade point, the sum of the endsem, midsem and internals scores with each score
\* capped at its own maximum: every course of the form's semester that has marks
\* was built from marks typed in (0..100) or from the capped total of components.
C25_ComponentsCappedAtMax ==
  \A k \in 1..Len(semesters[1].courses) :
    LET course == semesters[1].courses[k]
    IN  ~IsNull(course.marks)
          => \/ \E marksNum \in FormMarks :
                  /\ RLe(Zero, marksNum) /\ RLe(marksNum, Num(100))
                  /\ course = courseFromMarks(course.credits, marksNum, scale)
             \/ \E components \in FormComponents :
                  course = courseFromMarks(course.credits, CappedTotal(components), scale)

\* components within their maxima are summed, and a sum above 100 is cut to 100
ComponentsWithinMaxAreSummed ==
  \A components \in FormComponents :
    (/\ RLe(components.endsem, Num(50))
     /\ RLe(components.midsem, Num(25))
     /\ RLe(components.internals, Num(25)))
      => calculateTotalFromComponents(components.endsem, components.midsem,
                                      components.internals)
           = CappedTotal(components)

\* the courses with every ungraded course given the grade point gp
WithUngradedAt(courses, gp) ==
  [k \in 1..Len(courses) |->
     IF IsNull(courses[k].gradePoint) THEN [courses[k] EXCEPT !.gradePoint = gp]
     ELSE courses[k]]

\* some assignment of grade points in [0, scl] to the ungraded courses makes
\* calculateGPA of the semester defined and at least targetGPA; the GPA does not
\* fall when a grade point rises, so the assignments tried are all 0, all `needed`
\* and all scl
TargetReachable(semester, targetGPA, needed, scl) ==
  \E gp \in {Zero, needed, Num(scl)} :
    /\ RLe(Zero, gp) /\ RLe(gp, Num(scl))
    /\ LET gpa == calculateGPA(WithUngradedAt(semester.courses, gp))
       IN  ~IsNull(gpa) /\ RGe(gpa, targetGPA)

\* the verdict of the intra-semester solver for a semester is sound
FeasibleIsSound(semester, targetGPA, scl) ==
  LET res == calculateIntraSemesterTarget(semester, targetGPA, scl)
  IN  res.feasible => TargetReachable(semester, targetGPA, res.avgGPANeeded, scl)

\* C26 as claimed: whenever calculateIntraSemesterTarget returns feasible = true
\* for a semester with at least one ungraded course, some assignment of grade
\* points in [0, scale] to the ungraded courses makes calculateGPA of the whole
\* semester defined and at least targetGPA, also when the ungraded courses'
\* credits total 0.
C26_FeasibleIsSound ==
  \A t \in Targets(scale) : \A i \in 1..Len(semesters) :
    HasUngraded(semesters[i])
      => /\ FeasibleIsSound(semesters[i], t, scale)
         /\ FeasibleIsSound(ZeroUngradedCredits(semesters[i]), t, scale)

\* the verdict is sound for semesters whose ungraded courses carry credits
FeasibleIsSoundWithUngradedCredits ==
  \A t \in Targets(scale) : \A i \in 1..Len(semesters) :
    (HasUngraded(semesters[i]) /\ RGt(UngradedCredits(semesters[i].courses), Zero))
      => FeasibleIsSound(semesters[i], t, scale)

\* a feasible verdict for a semester with an ungraded course that carries credits
FeasibleVerdictReached ==
  \E t \in Targets(scale) : \E i \in 1..Len(semesters) :
    /\ HasUngraded(semesters[i])
    /\ Len(semesters[i].courses) = 2
    /\ RGt(UngradedCredits(semesters[i].courses), Zero)
    /\ calculateIntraSemesterTarget(semesters[i], t, scale).feasible
    /\ RGt(calculateIntraSemesterTarget(semesters[i], t, scale).avgGPANeeded, Zero)

\* the CGPA of the last point of the timeline
LastTimelineCGPA == getCGPATimeline(Session)[Len(semesters)].CGPA

\* C27 as claimed: for every session in which calculateCGPA is defined, sessions
\* with partially graded semesters included, the CGPA of the last point of
\* getCGPATimeline equals roundForDisplay(calculateCGPA(session.semesters)).
C27_TimelineAgreesWithCGPA ==
  ~IsNull(calculateCGPA(semesters))
    => LastTimelineCGPA = roundForDisplay(calculateCGPA(semesters))

\* the two computations agree when no semester is partially graded
TimelineAgreesWithoutPartialGrading ==
  (/\ ~IsNull(calculateCGPA(semesters))
   /\ \A i \in 1..Len(semesters) : ~PartiallyGraded(semesters[i]))
    => LastTimelineCGPA = roundForDisplay(calculateCGPA(semesters))

\* the two computations agree on a session of two semesters with a CGPA
TimelineAgreementReached ==
  /\ Len(semesters) = 2
  /\ \A i \in 1..2 : ~IsNull(getSemesterGPA(semesters[i]).gpa)
  /\ getSemesterGPA(semesters[1]).gpa # getSemesterGPA(semesters[2]).gpa
  /\ LastTimelineCGPA = roundForDisplay(calculateCGPA(semesters))

\* targets for which a session with CGPA 9 over 4 credits needs 10.002 over 20
\* more credits (9.835), and -0.002 over 1 more credit (7.1996)
BoundaryTargets == {Rat(1967, 200), Rat(17999, 2500)}

\* the returned requiredGPA lies in [0, scale]
ReturnedInRange(res) ==
  RLe(Zero, res.requiredGPA) /\ RLe(res.requiredGPA, Num(scale))

\* C28 as claimed: the record returned by calculateTargetGPA is self-consistent:
\* feasible is true exactly when the returned requiredGPA field (rounded to two
\* decimals, a zero result replaced by 0) lies in [0, session.metadata.scale], for
\* every session, target and creditsRemaining.
C28_FeasibleMatchesReturnedGPA ==
  \A t \in Targets(scale) \cup BoundaryTargets, r \in RemainingCreditValues :
    LET res == calculateTargetGPA(Session, t, r)
    IN  res.feasible <=> ReturnedInRange(res)

\* one direction holds: a feasible record carries a requiredGPA in [0, scale]
FeasibleImpliesReturnedInRange ==
  \A t \in Targets(scale) \cup BoundaryTargets, r \in RemainingCreditValues :
    LET res == calculateTargetGPA(Session, t, r)
    IN  res.feasible => ReturnedInRange(res)

\* both verdicts occur with a returned requiredGPA that agrees with them
VerdictsAgreeingReached ==
  /\ \E t \in Targets(scale), r \in RemainingCreditValues :
       LET res == calculateTargetGPA(Session, t, r)
       IN  res.feasible /\ ReturnedInRange(res) /\ res.requiredGPA # Zero
  /\ \E t \in Targets(scale), r \in RemainingCreditValues :
       LET res == calculateTargetGPA(Session, t, r)
       IN  ~res.feasible /\ ~ReturnedInRange(res)

\* C29 as claimed: after any sequence of addSemester and deleteSemester from the
\* empty session, the semesters have pairwise distinct `order` values, so that the
\* sort by `order` is a total order.
C29_OrdersDistinct ==
  \A i, j \in 1..Len(semesters) :
    i # j => semesters[i].order # semesters[j].order

-----------------------------------------------------------------------------
(* The stored session across the mount of the dashboard.                   *)

\* C30: saveSession is not called before the load effect has run and isLoaded is
\* set, the first session saved after the mount is the loaded one when a session
\* was stored, and until then the stored item is the one found at the mount
C30_StoredSessionNotOverwritten ==
  /\ mount.firstSaved # NoSession =>
       /\ isLoaded
       /\ LoadEffect \notin mount.toRun
  /\ (mount.atMount # NoSession /\ mount.firstSaved # NoSession) =>
       mount.firstSaved = mount.atMount
  /\ mount.firstSaved = NoSession => localStorage = mount.atMount

\* a stored session with semesters has been loaded and saved back, the mount over
C30_Witness ==
  /\ mount.atMount # NoSession
  /\ Len(mount.atMount.semesters) = 2
  /\ mount.atMount.metadata.scale = 4
  /\ mount.firstSaved = mount.atMount
  /\ mount.toRun = {}
  /\ mount.pending = << >>
  /\ localStorage = mount.atMount
  /\ SessionOf(semesters, scale) = mount.atMount

====
